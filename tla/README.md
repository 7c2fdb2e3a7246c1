# A verification project for Seeed_Arduino_atUnified

The library gives an Arduino sketch the API of ESP-IDF and lwIP (sockets, WiFi,
DNS, mDNS, events) on a microcontroller whose WiFi is a separate ESP chip
behind a serial line.  It is a thin layer over the ESP-AT library, which runs
threads of its own and is not in this repository.  Thin as it is, it keeps
state that several tasks share, and that is where it can go wrong.

The modules here are translated from the C sources at the lines that
`PROJECT.json` ("map") names.  TLC checks them on small instances; TLAPS proves
the theorems of `Conversions` and of the `*Proofs` modules for every value of
the constants.

## Inventory

| Component (source) | State | Operations | What is hard |
|---|---|---|---|
| Descriptor table (`atu_sockets.c` 30-152, 296-316) | `netconn_maps`, `maps_size`, `maps_lock` | `atu_socket`, `atu_accept_r`, `atu_close_r`; `atu_fd2conn` in every call | the table grows while other tasks use it; only `atu_conn2fd` locks; the lock itself is made lazily |
| Reading (`atu_sockets.c` 360-433, 493-569) | `pbuf`, `bytes_left`, `file_flag`, `nc_type` of an entry; the netconn's receive timeout | `atu_recv_r`, `atu_recvfrom_r`, `FIONREAD`, `SO_RCVTIMEO`, `F_SETFL` | a poll changes the timeout for everybody; the end of the stream is decided after the receive, by a connection fetched before it; unsigned count-down |
| Writing and connecting (`atu_sockets.c` 154-358, 440-491) | `keep_alive`, the netconn | bind, listen, connect, send, sendto, getpeername | `sendto` connects on a state it read before; a failed flush is not seen |
| select, byte order (`atu_sockets.c` 571-616) | none | `atu_select`, `atu_htons`, `atu_htonl` | says ready without asking the netconn; which set it looks at |
| Event loop (`esp_event_loop.c`) | `sys_evt_callback`, a static `ip_info` | `at_unified_cb`, `esp_sta_getip_cb`, `esp_event_loop_init`, `esp_event_loop_set_cb` | the callback may change at any time; GOT_IP waits for a command, DISCONNECTED does not |
| WiFi station (`esp_wifi.c` 201-229, 263-402, 808-855) | `sta_config`, `sta_to_connect`; `aps`, `apf` | set_config, get_config, connect, disconnect, sta_get_ap_info, scan_start, get_ap_num, get_ap_records | the library's thread gets pointers to all of it and uses them after the call; what is read back is not what was set |
| WiFi settings, TCP/IP adapter, WPS | in the chip | set_mode, set_country, soft-AP, SmartConfig, restore; set_ip_info, DHCP; WPS | the right interface; settings of two commands beside a restore |
| DNS (`atu_netdb.c`) | one static `hostent`; the chip's two servers | `dns_setserver`, `dns_getserver`, `atu_gethostbyname` | read-modify-write of the servers; everybody gets the same memory |
| mDNS (`mdns.c`) | `mdns_hostname` on the heap | hostname_set, service_add; the rest are stubs | freed before its replacement exists |
| SNTP time (`esp_hal_log.c` 32-64) | the clock; the zone in the chip | `ntp_conf_time` | the zone is set in one command, the time read in another |

All of these are called from any task; the library's threads run beside them.
The parts meet in five ways: tasks call the API and share its statics; the
library's thread delivers packets into netconns and events into
`at_unified_cb`; the event loop starts a command whose completion calls back
later; calls that set something in the chip meet there, one command at a time;
and a growth of the table moves the entries that calls on sockets work on.
`PROJECT.json` lists the hazards line by line.

What makes each part correct:

* table: a descriptor belongs to one owner and has its netconn behind it, no
  netconn is lost, accesses stay in bounds, the lowest free descriptor is used,
  every call returns; a growth takes each entry's buffer, bytes and flags along
  and leaves no second owner of a buffer behind;
* reading and sending: the reader gets the stream, once and in order; no buffer
  leaks; what FIONREAD promised is there; an end of file comes after the last
  byte; a poll is local to its call and returns; what was reported as sent is
  not held back;
* events: no call through NULL; each address is told; what the application
  knows in the end is what the station has;
* station: a join is of one configuration; records are of one scan and inside
  `aps`; who waits for a scan gets its results; every scan is told of; the
  access point that was asked for is the one that is joined, also with a
  configuration that was read back, and none is checked that was not asked for;
* settings and names: a setting changes only as a call asks for it; the clock
  is of the zone asked for; an answer is of the host asked for; the hostname is
  never read or freed when it is gone.

## Modules

| Module | Models | Role |
|---|---|---|
| `DescriptorTable` | what descriptors promise | abstract specification |
| `SocketTable` | the table, its lock, open, accept, close | detailed specification, refines `DescriptorTable` |
| `MCSocketTable` | - | symmetry and contracts for TLC |
| `SocketTableProofs` | - | theorems about `SocketTable` |
| `ByteStream` | what a reader is promised | abstract specification |
| `SocketIo` | connecting, sending on and reading from one descriptor | detailed specification, refines `ByteStream` |
| `SocketIoProofs` | - | theorems about `SocketIo` |
| `SocketGrowth` | a reader's calls while another task's open moves the table; composes what `SocketTable` and `SocketIo` model apart | specification |
| `SocketGrowthProofs` | - | theorems about `SocketGrowth` |
| `EventLoop` | events from the chip to the application | specification |
| `EventLoopProofs` | - | theorems about `EventLoop` |
| `WifiStation` | the station's statics, the tasks and the library's thread | specification |
| `WifiStationProofs` | - | theorems about `WifiStation` |
| `StationLink` | the station's configuration set, read back and connected with | specification |
| `StationLinkProofs` | - | theorems about `StationLink` |
| `Registers` | what the chip's settings promise | abstract specification |
| `ChipSettings` | the calls that set something in the chip, the DNS servers and the clock | actions, refines `Registers` |
| `Names` | host names and the hostname; composes `ChipSettings` with them | specification |
| `MCNames` | - | symmetry, functions and contracts for TLC |
| `NamesProofs` | - | theorems about `Names` and `ChipSettings` |
| `Conversions` | byte order, ports, timeouts, `atu_select` | functions and theorems about them |

Variables carry the names of the code's where there is one.  A task's place in
a call is `pc[t]`; one action is one access to memory that tasks share, or one
command that the chip executes, so two calls interleave as preemption lets
them.  Each module has a section "The choices inside the actions": the
expressions of the code that its behaviour turns on (a bound, a test, a value),
each named, with mistakes beside it that a property notices.

Most of the code has no locks, so most properties hold only if the application
keeps some calls apart.  Each specification has a constant for that contract
(`Exclusive`, `OneAtATime`, `GrowsApart`, `QuietNull`, `Contract`, `Apart`).
At its weakest value the specification is the code alone, and which property
needs which obligation is a result of the project.  An obligation rules a
hazard out; it does not show that the code copes with it.  The table of
weakened constants under "Runs" and the notes in `PROJECT.json` ("hazards") say
which hazards are of that kind.

### SocketTable

`SocketCall`, `CreateLock`, `NewConn`, then `Lock` ... `Unlock` (atu_conn2fd),
`Lookup`, `SetType` are `atu_socket`; `AcceptCall`, `Accepted` and the same
`Lock` ... `Unlock` are `atu_accept_r`; `CloseCall`, `Delete`, `Clear` are
`atu_close_r`.  Tables are numbered blocks that are never freed, as in the
code, so a stale pointer is a pair of an old block and an index and a write
through it is an ordinary write that nobody sees.  Addresses of netconns are
given again after a delete, which is how an entry can be mistaken for one's
own.  `Grow` is the calloc; the memcpy is a `CopyEntry` for each entry, in any
order, so that a close or a type that is stored in the middle of it meets
entries copied and entries not copied (`left`).  The compiler may order the two
stores of lines 76 and 77, which other tasks read without the lock, so both
orders are steps.  A NULL dereference stops the microcontroller (`fault`).

`Exclusive` is the contract.  `"first"`: the first call of `atu_socket`
overlaps no other call.  `"close"`: nor does any call of `atu_close_r`.
Without the first, the mutex may exist twice; without the second, a close can
empty the entry of a socket that was opened meanwhile.

### SocketIo

One descriptor, several tasks, the library's receiving thread and the peer.
Bytes are numbered, a packet buffer is the number of its last byte and its
length, `read` is what callers got.  A receive is `Save` and `SetPoll`, `Enter`
and `Receive`, `Restore`, because the timeout is the netconn's and not the
call's.  `Connect` may come while another task is in a receive.  Each receiving
call fetches its connection first (`econ`, lines 372 and 514) and asks that one
afterwards whether it is active (395, 522): one fetched from a netconn that was
not connected is NULL and never active, and of one from before a later connect
the library may answer anything, since it gives connections again.  `Write`,
`Flush` are `atu_send_r`; `Look`, `SendTo` are `atu_sendto_r` with its connect;
`out` says whether the netconn holds bytes back.  `Socket` and `Accept` give
the descriptor to a new netconn: `Close` has left `nonblock` and `nc_type` as
the code does, and `atu_accept_r` does not set the type.

`OneAtATime` is the contract: one call at a time on a descriptor, connecting
apart; a close counts as a call.  Without it `Close` may come in the middle of
any call, as in the code, which does not look.  The call then has a netconn
that was deleted, and as nothing is said of what the library does with one, the
task is at `gone` and stays there.

### SocketGrowth

`SocketTable` has no buffers and `SocketIo` has no tables; here a reader's
entry exists once per table.  `Begin` is the lookup that starts each call and
gives it `nf`; `RecvCall`, `Test`, `Receive` or `ReceiveFails`, `SetLeft`,
`Copy`, `Consume`, `Free`, `SetNull` are `atu_recv_r` one access at a time,
`IoctlCall` goes through the same steps up to `SetLeft` for FIONREAD, and
`FcntlCall`, `StoreFlag` are F_SETFL.  The other task is in `atu_conn2fd`:
`Grow`, `CopyField` for each field and in any order, `Publish`.  Its lock does
not matter here, as the reader never takes it.  `live` are the buffers that the
library gave out and nobody freed.

`GrowsApart` is the contract: no socket is opened during a call of the reader.
Without it a call frees its buffer through the old table after the new one has
taken a copy of the entry, and the next call reads freed memory; bytes received
through an old pointer are lost, and so is a flag.  That takes a table that is
full, so it does not happen before the seventeenth socket, and then to every
task that is waiting in a receive.

### EventLoop

The chip's reports and its answer to the command for an address share one
serial line, in order.  `Event` is `at_unified_cb` up to its end or to the look
at the callback; `Complete` and `CompleteFailed` begin `esp_sta_getip_cb`;
`Test`, `Call`, `Returns` are the two looks and the call itself, in each of the
two threads.  The application runs `LoopInit`, `Register` and `SetCb` at any
moment.  Addresses are lease numbers, so an old one can be told from a new one.
`QuietNull` is the contract: NULL is set only while no event is being handled.

### WifiStation

`SetConfig`, `Store`, `ConfigSet` are `esp_wifi_set_config` for the station:
the assignment of line 813 is a store to the pointer and the parts of a copy,
in any order.  `Connect`, `Load`, `ChooseMac`, `Join` are `esp_wifi_connect`,
which leaves a command with pointers into `sta_config` in the library's queue.
`ScanStart`, `ScanRefused`, `ScanReturns` are `esp_wifi_scan_start`; `GetApNum`;
`GetApRecords`, `CopyBssid`, `CopyRest`, `RecordsReturn` are the loop of
`esp_wifi_scan_get_ap_records`, two looks at each entry.  The library's thread
is `Take`, `ReadPart`, `Joined` for a join, `Hear`, `ScanEnds` for a scan.
What memory holds is what matters, so a part of a configuration is the
configuration it came from and an entry of `aps` is the number of the scan that
heard it; 0 stands for what nobody wrote and for what lies past the end.

`Contract`: `"config"`, a configuration is set while no call and no queued join
uses one; `"scan"`, one scan at a time, and neither started nor overtaken while
its results are waited for or read; `"number"`, as many records are asked for
as `esp_wifi_scan_get_ap_num` said of that scan.  `CallbackSet` says whether
`sys_evt_callback` is set, which line 103 of `esp_event_loop.c` tests: with none
nobody is told of a scan, and `ScanTold` is about an application that set one,
as the run does.

### StationLink

One task, the chip and the air.  `FillSta` and `FillFromRecord` are what an
application writes into its structures; `SetConfigSta`, `GetConfigSta`,
`GetApInfo`, `Connect`, `Disconnect` are calls of `esp_wifi.c`; `Joined` is the
chip, `Change` an access point that goes, comes back or changes its name.  A
name stands for a network and its password, an address for an access point, so
that two of them may have one name.  `esp_wifi_get_config` does not give what
was set: it fills in the access point that the station is connected to, sets
`bssid_set` whatever the configuration had, and leaves the rest of the caller's
structure, the password too, as it was.  Its documentation says otherwise, and
`want`, `setwant` are what an application believes that reads it: which access
point the structure asks for, and which one what it set last asked for, `None`
where any of the network will do.  `AskedIsKept` is what the code does keep:
whoever asked for an access point gets it or none, however often the
configuration is read back and set again.  `AnyStaysAny` is what it does not:
whoever asked for none is bound to one (finding `link_bound`).

`Contract`: `"config"` as in `WifiStation`, where the threads are; `"read"`, a
configuration is read back only while the station is connected with the one set
last, since before that it would be the one of another network.

### ChipSettings and Names

A function that makes one command is an operator of its own name which says
what it tells the chip, by interface and argument; `SettingCall` makes the
command and `Execute` or `ExecuteFails` is the chip.  `DnsSetServer`,
`DnsGetServer` and then `Execute` are `dns_setserver`; `NtpConfTime`,
`NtpConfigure`, `NtpGetTime`, `SetTimeOfDay` are `ntp_conf_time`.  `Concerns`
and `Aim` say what a function's documentation promises; the refinement of
`Registers` compares the two at every step of the chip.

`Names` adds `GetHostByName`, `LookupHost`, `Answer`, `UseAnswer`
(`atu_gethostbyname` and its caller) and `HostnameSet` ... `Publish`,
`ServiceAdd`, `Configure` (mDNS), over a heap of blocks.  Using or freeing a
block that is not allocated is the fault that `HeapSafe` excludes.

`Apart` is the contract, one member for each kind of call that must not overlap
its own kind: `"setserver"`, `"ntp"`, `"answer"` (an answer is used before
anybody asks again), `"hostname"`; `"restore"`, `esp_wifi_restore` overlaps no
other call; and `"nomem"`, an application that `mdns_hostname_set` told
`ESP_ERR_NO_MEM` uses no hostname any more.  The documentation of the function
names that result (`mdns.c` line 52), but not that the old hostname is gone and
that `mdns_hostname` still points to it: the next call would free it again.
`lost` says that this has happened.  `MayFail` says which commands may fail, and
whether malloc may.

### What is external

Assumed of the library and the chip, from how the code uses them:
`esp_netconn_receive` gives the next buffer, or says closed once everything was
received, or times out (at once for timeout -1UL, never for 0, else at some
time); deleting a netconn drops its mailbox; `esp_netconn_write` may hold bytes
back until a flush; the library has one command out at a time, reads the line
in order, completes commands on a thread of its own and reads the strings of a
command when it sends it; the chip answers with what it has when it answers,
ends every scan and executes a command completely or not at all.

## Runs

| Run | Question | Result |
|---|---|---|
| `table_integrity` | open, accept and close at will, calloc failing, contract `first` | lock, bounds, entries, termination hold |
| `table_ownership` | contract `first` and `close` | ownership holds, nothing leaks, `DescriptorTable` is implemented |
| `table_close_race` | contract `first` only | a new socket loses its netconn to a close |
| `io_stream` | one call at a time, connects at any time | the stream, the buffers, the polls, the end and sending are right; an end of stream, or EBADF, on a connection that is up is told only if it was connected during the call |
| `event_delivery` | contract `QuietNull`, reads may fail | the application is told and ends up right |
| `event_null_race` | no contract | a call through NULL |
| `event_late_address` | contract `QuietNull`, reads succeed | GOT_IP after DISCONNECTED |
| `wifi_station` | the whole contract, scans may fail or find too much | joins, records, blocking scans and SCAN_DONE are right |
| `growth_apart` | contract `GrowsApart`, the table grows twice | bytes, buffers and flags move with the entry |
| `link_roundtrip` | contract `config` and `read`, two access points that may share a name | a station that was asked to be at one is there, or nowhere |
| `link_bound` | the same contract | a station that was asked to be anywhere in a network is bound to one access point |
| `services` | all of `Apart`, commands and malloc may fail | settings, clock, answers and the hostname are right |

The violation runs each check one sentence of the repository, quoted under
"findings".  What else the code does when its callers keep nothing apart can be
seen by weakening the constant of a passing run and checking the property alone:

| Constant | Property that fails | What TLC shows |
|---|---|---|
| `Exclusive = {}` (`table_integrity`) | `LockExclusive` | two first calls of `atu_socket` each create the mutex, and two tasks are in `atu_conn2fd` |
| `OneAtATime = FALSE` (`io_stream`) | `DontWaitIsLocal` | the poll of one call is in force for a receive of another |
| `Contract` without `"config"` (`wifi_station`) | `JoinIsWhole` | a join reads parts of two configurations |
| without `"scan"` | `RecordsOfLastScan` | entries of `aps` change between the two looks at them |
| without `"number"` | `ApsInBounds`, `RecordsOfLastScan` | entries that no scan filled, or past `aps`, are given as records; line 338 of `esp_wifi.c` says that the number becomes the actual one, and nothing writes it |
| `Contract` without `"read"` (`link_roundtrip`) | `AskedIsKept` | what is read back is of the network before |
| `Apart` without `"setserver"` or `"restore"` (`services`) | `KeepsRegisters` | the server that another task set, or the restore, is undone |
| without `"ntp"` or `"restore"` | `ClockOfOwnZone` | the time is of the other task's zone, or of none |
| without `"answer"` | `HostIsTheOneAsked` | the static answer is of the other task's host |
| without `"hostname"` | `HeapSafe` | a name that was freed is given to the library |
| without `"nomem"` | `HeapSafe` | malloc fails, and the next call frees the old name again |
| `GrowsApart = FALSE` (`growth_apart`) | `NoUseAfterFree` | a buffer freed through the old table is read through the new one |

Bounds, and why they are enough:

* two tasks: every property but termination relates at most two tasks, and a
  lock has a holder and a waiter;
* three netconns with `Growth` 2 and two tables (ownership), two netconns with
  `Growth` 1 and two tables (integrity): the table grows from nothing and once
  more, is full, fails to grow, and an address is used again.  `Growth` is 16 in
  the code; only the boundary matters, and the proofs are for every `Growth`;
* four bytes, buffers of one or two, lengths 0 to 3: a read smaller than, equal
  to and larger than what is left, a buffer read in parts, two buffers waiting.
  `SizeMod` 16 stands for 2^32: larger than any count, small enough to notice a
  wrap;
* three tables, four bytes, buffers of one or two, lengths 0 to 3: two growths
  between the parts in which one buffer is read;
* a caller that asks for as many as three records where `aps` has two, so that
  it is `"number"` that keeps the reads inside and not the bound;
* two access points and two networks: the one that was meant, another of the
  same name, and one of another name;
* six reports and two leases: two connections, the first lost while its address
  is being read.  Of the reports besides those of the station, one that is told
  and one that is not stand for the rest, which take the same two paths;
* two entries of `aps`, three access points heard, two scans, a queue of two:
  a scan that fills `aps`, overflows it or leaves entries of the one before; a
  join behind a scan and before one.  Two configurations, one with an address;
* two values, hosts and blocks, and six functions: the three of several
  commands and three whose settings can be mistaken for each other.  The others
  have operators of the same form; `ChipKeepsRegisters` is about all of them.

`CHECK_DEADLOCK FALSE` where the system may really stop: a crashed program, a
listener nobody connects to, a chip that has sent all its reports, scans used
up, a heap fault.

Fairness.  `SocketTable`: weak fairness of each task's own steps (the RTOS runs
ready tasks) and strong fairness of taking the mutex, whose RTOS queue wakes
waiters in order; none for `Accepted`, since nobody has to connect.
`SocketIo`: weak fairness of the steps of a call, which includes the expiry of
a finite timeout; none for arriving bytes.  `EventLoop`: the chip answers a
command, and the library's threads run; none for the station.  `WifiStation`:
weak fairness of the library's thread, whose `ScanEnds` is a step of the chip
that ends each scan, and of each task's steps inside a call; none for starting
calls.  `Names`, `SocketGrowth` and `StationLink` have safety properties only.

## Proofs

Each theorem names its assumption about callers; none assumes a bound.

`SocketTableProofs`, from `FirstCallAlone` (the contract `first`):
`TypeCorrect`, `MutualExclusion`, `AccessesInside`.  None of the three is
inductive.  `LockExclusive` needs that the mutex handle never changes once
anybody can have read it (`LockInv`); `InBounds` needs the sizes of the tables
(`TablesInv`, `SizeInv`) and where each local index and pointer may be
(`IndexInv`), in each of the intermediate states of a growth: `copy`, `publish`,
then `size` or `maps`.  The conjuncts feed each other: that nobody else is in a
growth is the lock's, that the index left over from the search is the old size
is `IndexInv`'s.  The closes need no lock for any of this, which is why these
theorems do not ask for the contract `close`.

From the same assumption, and for an application that closes at any moment:
`OneDescriptor` (no netconn has two entries) and `EntriesKept` (an entry in use
keeps its netconn until a close clears it, and its type but for a store that
comes after the copy of a growth).  They rest on `EntryInv`: what a task in
`atu_conn2fd` has found out stays true until it stores (its netconn is in none
of the entries it has passed, and after the first loop in none at all); what
has been copied of the larger table repeats what is in the one in use, or was
there before a close, and nothing is left to copy when it is published
(`LeftInv`); no netconn is in the two at different indices (`Apart`); a pointer
that a call keeps is never ahead of the table in use, so a late store through
it goes to a table nobody reads or to the entry it was meant for.

`OneOwner` (`Ownership`), `Refinement` (of `DescriptorTable`) and
`NothingLeaks` need `CloseAlone` too, the contract `close`; `table_close_race`
shows why.  `OwnInv` is their invariant: while a descriptor is being closed
nobody else is in a call (`ClosingInv`); each opening call has a netconn of its
own (`HandInv`) that is not in the table yet (`LiveInv`); the second loop has
passed no free entry, and so the lowest is taken (`FullInv`); a descriptor that
is about to be returned is nobody else's (`GivenInv`).  The refinement is one
lemma, `ViewStep`: seen through `netconn_maps`, a step leaves all descriptors
as they are, fills a free one, or frees the one being closed; a growth is a
stutter in each of its steps.  `NothingLeaks` assumes `EnoughRoom` besides, that
calloc does not fail and the largest table has an entry per netconn, since
`atu_accept_r` loses its client when a growth fails.  That no growth then fails
is a pigeonhole argument (`NeverFull`): a full table of that size would hold
every netconn, and the one to be entered is not in it.

`SocketIoProofs`, from `OneAtATime`: `TypeCorrect`, `NoByteLost`,
`BuffersOwned`, `ToldIsThere`, `DontWaitStaysLocal`, `EndIsTheEnd` and
`Refinement` (of `ByteStream`), for every number of bytes, buffer size and
length.  `MboxInv` says that the buffers in the mailbox follow each other
without a gap up to the last byte sent; `HandInv` what the descriptor has at
each place in a call: nothing, a buffer read in part, a fresh one whose length
is not in `bytes_left` yet, or one copied from that `bytes_left` does not know
of yet.  With the two the bytes read, in hand and in the mailbox add up to the
bytes sent.  `CountInv` counts the buffers at every step; `TimeInv` says whose
timeout the netconn has, and what the poll will put back; `LateInv` that a
receive which gave nothing left the mailbox empty; `JoinInv` that a connection
which was fetched and is not that of the netconn now means a connect during the
call.  `NothingStaysHeld` needs no assumption: of overlapping sends, the one
that wrote last flushes after it.

`SocketGrowthProofs`, from `GrowsApart`: `TypeCorrect`, `BuffersAreLive`,
`BytesInOrder`, `GrowthKeepsEntry`.  None of the four is inductive.  What makes
them so: `Turns` says that `nf` leads into the table in use whenever a call is
under way, `CopyInv` what the copy has taken over so far, `Hand` at each step of
a receive which of the buffer, `bytes_left`, `live` and what the caller got are
already up to date, and `Flags` and `Counts` the same of the flags and the
bytes on their way.  The type of `bytes_left`, which is unsigned, is not free
either: it rests on `Hand` at `consume`.

`EventLoopProofs`: `TypeCorrect` and `ToldWhatIs` for every application, and
`NullSafe` from `QuietNull`.  The type of the command queue is the interesting
part: that a completion always finds the command it completes rests on
`LineInv` (one answer on the line at most, and only while a command is out).
`NullSafe` rests on `CallInv`, and that on `InitInv`, since
`esp_event_loop_init` too stores a callback that may be NULL.  `ToldWhatIs`
(`AppUpToDate`) rests on `AddressInv`: the address of the station is asked for
last, or about to be told, or told, and nothing older about the link can be
told after it.  That takes `OrderInv`, the order of the reports on the line.

`WifiStationProofs`: `TypeCorrect` for every application; `RecordsInside` from
`"number"` (`NumberInv`: a caller's number is at most the size of `aps`);
`JoinsAreWhole` from `"config"`; `RecordsAreOfLastScan` from `"scan"` and
`"number"`; `WaitsUntilDone` from `"scan"`.  Joins rest on `ConfigInv` (while
nobody sets a configuration all its parts are of the last one) and `JoinInv`
(what calls and the queue have of it, and what the library has read).  Scans
rest on `OneScanInv` (one scan in the queue, with the last number), `ApsInv`
(whose scan the entries of `aps` are of, before, while and after the chip
hears), `GotInv` (a caller's number is still good for the scan it was told of)
and `WaitInv` (who waits has its scan in the queue or its answer, and then
nothing has touched `aps` since).

`StationLinkProofs`: `TypeCorrect` for every application; `AskedIsReached`
from `"config"` and `"read"`.  The argument goes along the way of the MAC
address: a structure that was filled in names the access point it was asked for
(`ReadInv`, which takes `"read"`: a failed read leaves an older one), a join
under way tries that one alone (`JoinInv`, which takes `"config"`: nobody
changes the configuration under it), and so a station connected with what was
set is where it was asked to be (`LinkInv`).

`NamesProofs`: `TypesAlways` for every application, and from the assumptions
`ServersApart`, `NtpApart`, `HostnameApart` and `AnswerApart` in turn that
`Registers` is implemented (`ChipKeepsRegisters`), that the clock is of its own
zone (`ClockIsOfOwnZone`), that the heap is used well and has one hostname
(`NoHeapFault`, `HostnameIsKept`), and that an answer is of the host asked for
(`AnswerIsForTheHostAsked`).
malloc may fail in all of them; `HostnameApart` has `"nomem"` beside
`"hostname"`.
The refinement needs that what `dns_setserver` has read of the other server is
still true when the chip gets its command, whatever settings change meanwhile;
the heap needs (`HeapInv`) that at most one task has a block that is not the
hostname, and that once malloc has failed (`lost`) nothing is allocated and no
task frees the old name again.

`Conversions` has no behaviour.  `PortsRoundTrip` and `AddressesRoundTrip` are
about all arguments; `SelectSeesOneSet`, `PeerPortSwapped` and
`ShortTimeoutIsForever` say exactly what three lines of the code do that their
callers may not expect.

Every invariant, action property and refinement of the passing runs is thereby
a theorem.  Only model-checked are the liveness properties (`CallsReturn`,
`CallsEnd`, `AddressTold`, `ScanTold`), since fairness and ENABLED are out of
the prover's reach, and the counterexamples of the violation runs.

## Not modelled

* Inside the modelled functions: the log output; `MSG_PEEK` and the other
  receive flags, `FIONBIO`, `SO_ERROR` and socket types other than stream and
  datagram, which the code ignores, answers with 0 or refuses at once; the
  fields of a record besides the address and the rest, of a date and of a
  country; strings of 32 bytes without a terminator.
* bind, listen, getpeername (but for its port) and getsockopt pass their
  arguments to one call of the library or answer at once.  `keep_alive`
  changes nothing the properties tell apart.
* The getters of `esp_wifi.c` besides `esp_wifi_get_config` and
  `esp_wifi_sta_get_ap_info`, `tcpip_adapter_get_ip_info` and `esp_read_mac`:
  one command each that copies what the chip answers; no state.  So does
  `esp_wifi_get_config` for the soft-AP.
* The stubs, two thirds of the functions of `esp_wifi.c` and `mdns.c`: they
  return `ESP_OK` and do nothing.
* `dump_tasks`, the log macros and `pathToFileName`: output.
* The headers (`lwip/opt.h`, `lwipopts.h`, `sdkconfig.h`, `esp_event.h` and so
  on): declarations, options and comments taken over from ESP-IDF and lwIP.
  They are four fifths of the repository's lines, and of the `.c` files most
  lines are documentation and stubs, so that the lines with behaviour, which
  "map" covers, are a small share of all.
* A heap that fails in `atu_accept_r` loses the client's netconn, and in
  `atu_socket` crashes on line 127.  Both are in the model (`GrowFails`,
  `Lookup`); no property forbids them, since nothing in the repository says
  what should happen.  `NoLeak` is therefore checked without failing calloc, and
  proved from `EnoughRoom`.

## Plan

The modules of the first plan are written and their safety properties proved.
What is left: of the hazards that no property covers, those for which the
repository says what should happen, as soon as it does (a growth that fails, a
descriptor used again with the flags of its last user); shorter proofs where a
lemma can serve several steps, in `SocketTableProofs` first.

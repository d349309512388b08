# TLA+ models of TAS: the queue manager, the libtas context, the sockets layer and the ivshmem proxy

This directory holds TLA+ models of `src/tas/fast/qman.c`, the traffic-shaping
scheduler of the TAS fast path, and of `src/lib/tas/init.c`, the libtas
event loop (`flextcp_context_poll`), and of `src/lib/sockets`, the POSIX
sockets emulation on top of libtas, with the TLC configurations that check them.
`PROJECT.json` lists the components, the runs, the seeded-bug mutants, the
map from every definition to the source lines it translates, the findings and
the hazards.

## The system

The queue manager is one `qman_thread` per dataplane core. It is called
synchronously by its core only, so there is no locking and no thread
interleaving (spec section 5). Its parts:

| Part | Code | State |
|---|---|---|
| Virtual clock | `rel_time`, `timestamp_lessthaneq`, `flow_poll_skiplist` | `ts_virtual`, `ts_real` (thread-wide), 32-bit wrapping timestamps |
| Application scheduler | `app_qman_poll`, `app_qman_set`, `app_set_impl`, `app_queue_fire`, `app_queue_activate` | `app_cont` FIFO of active applications (`head_idx`, `tail_idx`, `next_idx`, `FLAG_INNOLIMITL`), per-application `avail` |
| Flow scheduler | `flow_qman_poll`, `flow_poll_skiplist`, `flow_poll_nolimit`, `flow_queue_fire`, `flow_queue_activate*`, `flow_set_impl` | per application a `flow_cont`: skip list of rate-limited flows (`head_idx[l]`, `next_idxs[l]`), FIFO of unlimited flows (`nolimit_head_idx`, `nolimit_tail_idx`, sharing `next_idxs[0]`), `nolimit_first` |
| API | `qman_thread_init`, `qman_poll`, `qman_set`, `qman_next_ts` | |

The parts interact as follows:
- `qman_poll` pops applications round robin.
- For each one, it calls `flow_qman_poll` with the rest of the budget.
  `flow_qman_poll` reads `timestamp()` and services the FIFO and the skip list in alternating order.
- The skip list advances the thread's `ts_virtual`.
- `app_queue_fire` subtracts the bytes produced from the application's `avail` and re-appends the application if `avail` is still positive.
- `qman_set` updates the application first (`app_set_impl`) and then the flow (`flow_qman_set`). Either may activate its queue.

libtas (`src/lib/tas/init.c`, `tas_ll.h`) is the application side of TAS. A
`flextcp_context` shares memory with three parties:
- the kernel (slow path), which writes `kernel_appin` entries into the kout ring
  (open/accept replies, moves, close reports);
- the fast path, which writes connection updates (`rx_bump`, `tx_bump`, end of
  stream) into one arx ring per fast-path core, and reads the application's
  bumps from one atx ring per core;
- the connection calls of the application (`flextcp_connection_rx_done`,
  `tx_send`, `tx_close`, `close`), which adjust a connection's counters and put it
  on the context's `bump_pending` list. Their code, `conn.c`, is not in this
  repository.

`flextcp_context_poll(ctx, num, events)` runs `kernel_poll`, then
`fastpath_poll_vec` with the rest of the event array, then `txq_probe` (reclaim
tx slots the fast path emptied) and `conns_bump` (write the pending bumps into
the tx rings). An entry whose events do not fit returns -1 and stays in its
ring for a later poll. Updates may arrive before the application has seen the
kernel's open reply; they are counted and injected when the reply is handled.

The sockets emulation (`src/lib/sockets/control.c`, `context.c`) turns
socket calls into libtas calls and libtas events into socket state:
- `tas_socket`, `tas_bind`, `tas_connect`, `tas_listen`, `tas_accept4`,
  `tas_shutdown` and `tas_close` change a `struct socket` (its type, status,
  `st_flags`, a listener's backlog) and call libtas (`flextcp_connection_open`,
  `flextcp_listen_open`, `flextcp_listen_accept`, `tx_close`, `close`);
- a listener keeps a ring of pre-allocated connecting sockets
  (`enqueue_accept`), each with an accept request at libtas;
- `flextcp_sockctx_poll` runs `flextcp_context_poll` and a handler per event
  (`ev_listen_open`, `ev_listen_accept`, `ev_conn_open`, ..., `ev_conn_closed`),
  which sets statuses and epoll bits and finishes or frees closed sockets;
- blocking `connect`, `listen` and `accept` loop over that poll until the
  status they wait for changes.

The host side of the VM proxy (`src/proxy/host/ivshmem.c`) lets applications
in a qemu VM use TAS:
- qemu processes connect to a unix socket; `uxsocket_accept` gives each one a
  VM id (`next_vm_id`), the VM's shared memory and two eventfds, sets up the
  channel (a pair of rings in that memory) and writes HELLO;
- one host thread calls `ivshmem_poll` again and again: `uxsocket_poll`
  (accepts), `chanel_poll` (one message from every slot of `vms[]`, answered by
  `channel_handle_tasinforeq_msg`, `channel_handle_ctx_req` or
  `channel_handle_newapp`) and `ctxs_poll` (for each TAS context the proxy
  created for a guest whose eventfd is signalled: drain it, write a VPOKE).

The `canwait`/`wait` calls of libtas are not modelled; see below.

## Modules

- `QmanTime` holds the timestamp arithmetic at a width of `TimestampBits`:
  `TsAdd`/`TsSub` are the `uint32_t` wrapping operations, `RelTime` is `rel_time`
  branch for branch, and `TimestampLessThanEq` is `timestamp_lessthaneq`.
- `Qman` is the queue manager.
  - Variables: `fq[a][f]` (struct flow_queue), `fc[a]` (struct flow_cont), `aq[a]` (struct app_queue), `ac` (struct app_cont),
    `ts_virtual`, `ts_real`, `poll` (the `qman_poll` in progress: budget and count so far) and `setCalls` (a bound).
  - Links are arena indices with `INVAL` = `IDXLIST_INVAL`, as in the code.
  - Each C function of the flow level is an operator over a record `s` = (arrays of one flow_cont, clock, random levels still to draw,
    output entries). The loops are `RECURSIVE` operators (`SkiplistWalk`, `SkiplistPreds`, `FlowPollNolimit`, `SkiplistLoop`, `FlowPollPhases`).
    A function whose body has several parts is split into one operator per part (`FireTake`/`FireRequeue` for
    `flow_queue_fire`, `ClampNextTs`/`SkiplistPreds`/`SkiplistLink` for `flow_queue_activate_skiplist`,
    `SkiplistLoop`/`SkiplistFinish` for `flow_poll_skiplist`). The intermediate state is passed from one to the next as an argument.
  - Actions:
    - `QmanSet` models `qman_set`/`app_qman_set`: `AppSetImpl`, then `flow_qman_set`'s id check, then `FlowSetImpl`.
    - `QmanPollBegin` is the call of `qman_poll`.
    - `AppQmanPollIteration` is one iteration of the `app_qman_poll` loop, including the whole `flow_qman_poll` of the popped
      application and `app_queue_fire`.
    - `QmanPollReturn` is the loop's exit.
    The model takes one step per iteration because each iteration reads the clock afresh. `qman_set` is disabled while a poll is in
    progress, because the calls are synchronous.
  - Undetermined values are nondeterministic:
    - the clock reading is `ts_real + d` with `d \in Elapsed`;
    - the skip-list level drawn by `flow_queue_level` is any element of `0..Levels-1`;
    - `nolimit_first`, which `flowcont_init` leaves uninitialised because the flow_cont is malloc'ed, is either value;
    - `ts_real` at init (`timestamp()`) is any timestamp.
  - The calloc'ed arenas start as zero, including `next_idxs` = 0 and `next_idx` = 0, not `INVAL`.
- `MCQman` defines the `qman_set` inputs enumerated: combined
  rate/max_chunk/add calls, plain `ADD_AVAIL`, `SET_AVAIL` and `SET_RATE`.

`CallerContract` restricts the enumerated inputs: a flow's first `qman_set` sets its `max_chunk`. The
connection layer that calls `qman_set` is not in this repository. Without this restriction, a calloc'ed flow with `max_chunk` 0 is
fired for 0 bytes forever (a hazard listed in PROJECT.json), and the state
space is too large for the runs.

A `qman_set` with an out-of-range flow id is enumerated only with
`ADD_AVAIL`/`SET_RATE`. With `SET_AVAIL`, `app_set_impl` reads
`fc->queues[flow_id]` out of bounds, which the model does not represent.

- `LibtasContext` is one libtas context with its rings and connections.
  - Variables: `kout`, `arx[q]`, `atx[q]` (the rings, slot indices for byte
    offsets, `NoEntry` for a zeroed slot), `ctx` (`kout_head`, `rxq_head`,
    `txq_tail`, `txq_avail`, `next_queue`, the bump list), `conn[c]`
    (`struct flextcp_connection`: status, `rxb_head/used/bump`,
    `txb_sent/bump`, `fn_core`, flags, `rx_closed`), `evs` (the events the last
    poll returned) and the environment: `kern` (the kernel's view and kout
    tail), `fp` and `fpq` (the fast path's credit per connection, its ring
    positions). `rxFrom`, `txTotal`, `aborted` and `parity` are ghosts.
  - `ContextPoll(num)` is the whole `flextcp_context_poll` as one step. Each C
    function is an operator over a record `s` of the state the poll works on;
    loops are `RECURSIVE` operators (`KernelPoll`, `Gather`/`GatherRound`,
    `ProcessBatch`, `PollVecLoop`, `ProbeScan`, `ConnsBump`). The other parties
    only fill an empty slot or empty a full one, so the poll reading a slot
    before or after their step covers the interleavings.
  - An `assert` or `abort` sets `aborted`; the model then continues as a build
    with `NDEBUG` would.
  - Environment actions: `KernelFlowSetup` (the fast path may deliver from now
    on), `KernelOpenReply`, `KernelOpenFail`, `KernelCloseReply`, `KernelMove`;
    `FpUpdate` (an update within the receive credit and the unacknowledged
    bytes), `FpConsume`; `AppRxDone`, `AppTxSend`, `AppTxClose`,
    `AppConnClose`, modelled from their `tas_ll.h` declarations and from what
    init.c expects of them (`spec_modelled` in the map).
- `ConnEvents` is the abstract specification of what `flextcp_context_poll`
  promises about the events of one connection: the open answer first, a
  failed open last; `RECEIVED`, `SENDBUF` and `RXCLOSED` only while open and
  not closing (none after `RXCLOSED`, no `SENDBUF` after `TXCLOSED`);
  `TXCLOSED` once and only after `tx_close`; after `close` only `CONN_CLOSED`.
  Its state is a phase and four flags per connection; `Deliver` accepts a
  batch `evs'` that is legal event after event (`Step`, folded by `After`).
  `LibtasContext` is checked against it (`EventStream`, an `INSTANCE ...
  WITH` mapping `conn`/`kern` to the phase and flags, and the property
  `ConnEventsRefined`), and `SocketsContext` is written against it. The
  refinement does not hold once a connection's updates sit on two fast-path
  queues (run libtas_reorder).
- `SocketsContext` is the sockets layer on one application thread. Its state:
  `sk` (per struct: type, nonblock, bound, status, `st` = `st_flags`,
  `listener`, `accepted`, `rx`, `ep` = epoll bits), `fd` (the fd is the
  application's, held by a backlog, or none), `bl` (a listener's backlog as
  the sequence of its live window, its length, and whether the array was
  freed), `lst` (the libtas listener), `kind` and the ConnEvents variables of
  each libtas connection, `pc` (the call the thread is blocked in), and the
  ghosts `finished` (`flextcp_connection_close` calls), `asserts`, `uaf`,
  `calls`. Actions:
  - `App`: one socket call, whole, as an operator over a state record;
    `EnqueueAccept` and the accept loop are recursive/iterated operators;
  - `Poll`: libtas delivers one event the ConnEvents promise (`LT!Step`)
    allows (or a listener's open answer), its handler runs, and a blocked call
    re-checks its wait condition (`Resume`);
  - `AppIdle`: a thread not blocked makes no more calls.
- `MCSocketsContext` gives three structs as model values.
- `Ivshmem` is the host proxy. Its state is the static state of ivshmem.c:
  `nextVm` (`next_vm_id`), `conn[i]` (`vms[i].chan` is set), `nextApp`
  (`next_app_id`), `ctxs[v]` (`vm->ctxs`, each with whether its evfd is in
  `ctx_epfd` and whether it is signalled), `pending` (qemus waiting on `uxfd`),
  `hup` (VMs whose qemu exited), `oob` (a VM recorded in `vms[MAX_VMS]`) and
  `pc` ("run", "accept" while blocked in `accept()`, "crashed"). Each channel
  direction is the sequence of all messages written and the count read, so a
  ring holds at most `ChanCap` messages.
  - `IvshmemPoll` is one whole `ivshmem_poll`: `AcceptLoop` (the events of
    `uxsocket_poll`, each calling `UxsocketAccept`), `ChanelPoll` (slots in
    order, `ChannelPollVm` and the handlers) and `PokeLoop` (`ctxs_poll` in an
    epoll order chosen by `\E`). The success of each accept, of
    `flextcp_proxy_context_create` and of `flextcp_proxy_newapp` is chosen.
  - `AcceptReturns` finishes a poll that blocked in `accept()` once a qemu
    connects.
  - The environment: `QemuConnect`, `QemuExit`, `GuestSend`, `GuestRecv`
    and `CtxSignal` (TAS signalling a context).
  - The channel (`channel.h`) is not in this repository: `CanWrite` and
    `ChannelWrite` model a write that fails on a full ring.
- `MCIvshmem` gives one context request id and one app id.
- `MCLibtasContext` adds `SafetyView`, the variables without `parity`, used
  as the `VIEW` of the invariant runs.

## Properties and runs

| Run | Cfg | Expect | What it shows |
|---|---|---|---|
| qman_one | MCQman_one.cfg | pass | See below. |
| qman_two | MCQman_two.cfg | pass | See below. |
| qman_badflow | MCQman_badflow.cfg | violation | `PollReturns` fails: an `ADD_AVAIL` with an invalid flow id leaves an active application with avail and no flow bytes. `app_qman_poll` then loops forever. |
| qman_idle | MCQman_idle.cfg | violation | `VirtualTimeMonotone` fails: an idle gap longer than half the clock period makes `max_vts` read as behind. |
| qman_shared | MCQman_shared.cfg | violation | `VirtualTimeMonotone` fails: one application's skip-list entries, stamped at an older `ts_virtual`, pull the thread-wide clock back. |

**qman_one** (one application, two flows, including invalid flow ids) checks:
- `TypeOK`;
- `ListsWellFormed`: every skip-list level and the FIFO is a chain ending in INVAL; each holds exactly the flagged flows; higher levels are ordered sublists of lower ones; the FIFO tail is right; no flow is in both; the same holds for the app FIFO;
- `BackloggedIsScheduled`: a flow or application with avail is listed;
- `AppAvailCoversFlows`: the application's avail is never below its flows' sum, so the `uint32_t` subtraction in `app_queue_fire` cannot wrap;
- `SkiplistOrdered`: ordered by `timestamp_lessthaneq` at the current `ts_virtual`;
- `SkiplistWithinHorizon`: no skip-list entry is more than one `max_chunk` at the lowest rate ahead of `ts_virtual`;
- `RelTimeIsWrappedDistance`: from the `ts_virtual` reached, `rel_time` to every 3-bit timestamp gives it back modulo the period and is at most half the period;
- `VirtualTimeMonotone`.

**qman_two** (two applications, one flow each) checks:
- `ListsWellFormed`;
- `AppAvailIsFlowSum`: app avail = sum of flow avail when all ids are valid;
- `PollReturns`: with valid flow ids, every `qman_poll` returns.

| libtas_poll | MCLibtasContext.cfg | pass | Two cores, a move, pre-open data, a 2-event array: `TypeOK`, `CreditsConserved`, `TxRingNoOverwrite`, `NoAbort`. |
| libtas_live | MCLibtasContextLive.cfg | pass | One core, a 5-event array, 3 bytes through a 2-byte receive buffer: `RxEventsMatchStream`, `BumpsEventuallySent`, `UpdatesEventuallyHandled`. |
| libtas_close | MCLibtasContextClose.cfg | violation | `ConnClosedWhenKernelClosed` fails: CONN_CLOSE is handled as a listener move. |
| libtas_reorder | MCLibtasContextReorder.cfg | violation | `ConnEventsRefined` fails with the libtas_poll bounds: after a move, `CONN_RECEIVED` comes after `CONN_RXCLOSED`. |

The libtas properties:
- `CreditsConserved`: for a connection not yet closing, the receive buffer's
  size equals the fast path's credit plus the rx bytes in arx updates, plus
  `rxb_used`, plus `rxb_bump`, plus the bumps in the atx rings. Likewise,
  `txb_sent` equals the fast path's unacknowledged bytes plus the acks in
  flight plus `txb_bump` plus the bumps in flight. An update handled twice or
  skipped, or a bump not reset, breaks it. So does a reordering that loses
  bytes.
- `TxRingNoOverwrite`: the `txq_avail` slots from `txq_tail` are empty.
- `RxEventsMatchStream`: each poll's `CONN_RECEIVED` events continue the
  stream: each starts at the stream position modulo `rx_len` and none runs past
  the buffer's end. Nothing is announced that the fast path did not deliver.
  It is checked in libtas_live, where 3 bytes pass through the 2-byte buffer,
  so a receive that wraps the end is split into two events (init.c:807-817).
- `NoAbort`: no assert or abort of the poll is reached.
- `BumpsEventuallySent`, `UpdatesEventuallyHandled`: a bump reaches the tx
  ring, an update leaves its ring.
- `ConnEventsRefined`: every behaviour of `LibtasContext` is one of
  `ConnEvents` under the mapping: phase from `conn.status` (requested while an
  open or accept is outstanding, closed when `CLOSED`), `rxEos` from
  `rx_closed` (not for a failed open), `txEos`/`txAck` from `TXEOS`/`TXEOS_ACK`,
  `closing` from `CLOSE_REQUESTED`; `evs` is the same variable. A poll that
  delivered `RECEIVED` after `flextcp_connection_close`, or a second
  `RXCLOSED`, breaks it. With one fast-path queue (libtas_live's bounds) it
  holds, but that is the case where nothing can reorder, so it is not kept as
  a passing property. With two queues and a move it fails (libtas_reorder):
  `fastpath_poll_vec` gathers one entry per queue from `next_queue` on, so an
  end of stream on the connection's new core is handled before a data update
  still on its old core.

| Run | Cfg | Expect | What it shows |
|---|---|---|---|
| sockets | MCSocketsContext.cfg | pass | Three structs and fds, at most 5 calls: `TypeOK`, `CloseFinishesOnce`, `AcceptWakeup`, `BlockingCallsReturn`. |
| sockets_uaf | MCSocketsContext_uaf.cfg | violation | `NoBacklogUseAfterFree` fails: after a failed listen, `accept4` writes into the freed backlog. |
| ivshmem | MCIvshmem.cfg | pass | One slot of `vms[]`, two qemus, 1-message rings: `TypeOK`, `ResponsesMatchRequests`, `PokeAfterContextRes`, `RequestsEventuallyRead`. |

The ivshmem properties:
- `ResponsesMatchRequests`: for each VM and response type, the responses
  written never outnumber the requests of that type read from the guest.
- `PokeAfterContextRes`: every VPOKE for a context request id comes after a
  CONTEXT_RES for it. It holds because the evfd enters `ctx_epfd` only after
  the response is written; a failed write leaves the context linked but never
  polled.
- `RequestsEventuallyRead`: a request a guest writes is eventually read,
  unless the poll thread crashed or a qemu has exited. The exception is real:
  the cfd is added to `epfd` with a zeroed event, so `data.ptr` is `EP_LISTEN`,
  and a hung-up cfd sends every later `uxsocket_poll` into a blocking
  `accept()`.

The sockets properties:
- `CloseFinishesOnce`: `flextcp_connection_close` is called at most once per
  connection, and only when the socket is `SOC_CLOSED`, its fd released and
  both `RXCLOSED` and `TXCLOSED_ACK` are set. `conn_close`, `ev_conn_rxclosed`
  and `ev_conn_txclosed` can each be the last of the three; the struct is freed
  on the `CONN_CLOSED` that call brings.
- `AcceptWakeup`: a listener the application holds whose next backlog entry
  has been answered has `EPOLLIN`. `tas_accept4` clears it from the new head's
  status; `ev_listen_accept` must set it again.
- `BlockingCallsReturn`: a blocked `connect`, `listen` or `accept` returns,
  given that libtas answers every open request.

Every property of a passing run has a seeded-bug variant in its module
(the operators named `...Bug`) that TLC shows it catches. PROJECT.json lists
the pairs. For example: `max_chunk` fired regardless of `avail` breaks `TypeOK`;
`next_idxs[0]` not reset on a FIFO append breaks `ListsWellFormed`; no lower
clamp in `flow_queue_activate_skiplist` breaks `VirtualTimeMonotone`.

## Findings

- **Invalid flow id mutates the application** (qman.c:435 before 579). This is a
  code bug by spec 4.4 ("does not mutate state on rejection"), and it turns into a
  `qman_poll` that never returns.
- **Idle wrap** (qman.c:746/753). After roughly 2.1 s of no skip-list poll,
  `ts_virtual` regresses. The spec says it never does.
- **Thread-wide virtual time over per-application skip lists** (qman.c:775/791).
  `ts_virtual` moves back within and across iterations of one `qman_poll`.

- **CONN_CLOSE handled as a listener move** (init.c:155). `else if
  (KERNEL_APPIN_STATUS_LISTEN_MOVE)` tests a constant. Since `KERNEL_APPIN_INVALID`
  is 0 and the types are distinct, the constant is non-zero. The
  `CONN_CLOSE` branch and the final `abort()` are unreachable, the application
  gets `LISTEN_MOVED` for its connection, and `conn->status` never becomes
  `CLOSED`.

- **Backlog used after free** (control.c:506, 393, 559). `tas_listen` frees
  the backlog array when libtas fails the listener (`err_bl`) or no fd is left
  for the first accept (`err_close`), and returns -1, but the socket stays a
  `SOCK_LISTENER` with `backlog` pointing at the freed array. A later
  `tas_accept4` on the same fd refills it through `enqueue_accept`. TLC's
  shortest trace: socket, bind, listen (libtas answers failure), accept4.

- **Updates reordered across fast-path queues** (init.c:384). After a
  move, the end of stream on the new core is gathered before a data update on
  the old core, and the application gets `CONN_RECEIVED` after
  `CONN_RXCLOSED`. TLC's trace: open, a 1-byte update on core 1, a move to
  core 0, an eos update on core 0, a poll returning `CONN_MOVED` and
  `CONN_RXCLOSED`, then one returning `CONN_RECEIVED`. Whether TAS's fast path
  (not in this repository) can leave updates on the old core at a move decides
  whether this happens in practice; libtas does nothing to prevent it.

Edges of ivshmem.c that are hazards without a run of their own:
- **NULL channel in chanel_poll** (ivshmem.c:423, 440). `vm = &vms[i]` is
  never NULL, so `channel_poll_vm` reads `vm->chan->rx` of every slot no VM
  has taken. The ivshmem run reaches it (`pc = "crashed"`) with one
  `ivshmem_poll` before any qemu connected; with `MAX_VMS` > 1 every poll
  crashes until all slots are taken.
- **vms[MAX_VMS]** (ivshmem.c:271): the check is `next_vm_id > MAX_VMS`, so
  one VM more than the array holds is accepted. The ivshmem run reaches it
  (`oob`).
- **Lost poke** (ivshmem.c:644-652): the evfd is drained before the VPOKE is
  written, so a full ring loses the signal for good.

Two edges of the sockets layer are hazards without a run of their own:
- **Close while connecting** (context.c:283). Closing a non-blocking socket
  before its `CONN_OPEN` sets `SOC_CLOSED`; the open answer then fails the
  assert of `ev_conn_open`, and without assertions sets `SOC_CONNECTED` on a
  socket no fd names. It is never freed. The model reaches this state.
- **Failed accept** (control.c:590). A `LISTEN_ACCEPT` with a failure status
  makes the backlog head `SOC_FAILED`; `tas_accept4` asserts `SOC_CONNECTED`
  and returns the failed connection.

Two edges of init.c are listed as hazards without a run of their own:
- **rxb_head not wrapped before the open** (init.c:754). When pre-open data
  fills the buffer, `rxb_head` becomes `rx_len`, and the next update emits a
  zero-length `CONN_RECEIVED` at `rxb_base + rx_len`. `RxEventsMatchStream`
  holds regardless.
- **Gathering around a full rx ring** (init.c:390). When `num` exceeds a
  ring's entries, the first entry is gathered twice and the assert on its
  type fails. With `Nums = {3}` and 2-entry rings, `NoAbort` fails after two
  updates. `flextcp_sockctx_poll` passes 16 and lowlevel.c passes 4. The ring
  sizes come from the kernel, which is not in this repository.

## Bounds

- `TimestampBits` is 3 in the qman runs (8 timestamps, Middle 4). This is the
  smallest width at which one `max_chunk` at the lowest rate (`MaxGap` = 2) and
  the elapsed times stay below half the period in the passing runs, while the
  wrap point is reached.
- `RateScale` stands for the factor 8·10^6 of `flow_queue_new_ts`.
- `MaxChunks` = {2} with avails {1, 3} in qman_one, so `min(avail, max_chunk)`
  takes both branches.
- Two skip-list levels make the sublist property and the head removal
  non-trivial.
- Budgets of 1 and 2 exercise both the "budget exhausted" and the "list empty"
  exits of `flow_poll_skiplist`.
- At most 2–4 `qman_set` calls per behaviour (`MaxSetCalls`). Polls are
  unbounded, and the clock wraps.

In qman_two, `Elapsed` = {1}. With larger steps, two applications polled in turn
push the clock past half the period, and that is the idle-wrap finding again.

libtas runs use one connection (either an open or an accept request), rings of
2 entries (tx ring 2, the smallest where the `len / 2` test of `txq_probe`
matters), a 2-byte receive and transmit buffer, at most 2 received and 1 sent
byte plus the end of stream, and one move. This is enough for a full transmit buffer (one byte plus the end of stream), an
update that does not fit, a full tx ring and updates of one connection on two
cores. In libtas_poll, `num` is 2, at most the ring size; a larger `num` is
the gathering hazard of init.c:390. libtas_live uses 5-entry rx rings and `num` 5, the largest
number of events one update can need (two receive pieces, `SENDBUF`,
`TXCLOSED`, `RXCLOSED`); it passes 3 bytes through the 2-byte receive
buffer, so a receive wraps the buffer's end, and sends no data bytes (the tx
ring still fills with bumps), which keeps the run under a minute.

The sockets run has three structs and three fds: a listener and two backlog
entries, or a connection and a listener with one. The backlog is at least 8
long (`max(backlog, 8)`), so with 3 fds `enqueue_accept` always stops because
fds run out, the case `ListenArgs` = {1} exercises. Five calls reach socket,
bind, listen, accept and a close, or a connect, shutdown and close of one
socket and the start of another; every libtas answer has status 0 or 1.

The ivshmem runs use one slot of `vms[]` for the pass run, since with two
the first poll already crashes (ivshmem.c:423). Two qemus reach the second
accept, the `vms[MAX_VMS]` case, and an exit followed by a blocked accept that
the second qemu releases. Rings of one message make every full-ring failure
reachable; two requests per guest and two signals give a context request
followed by a poke.

## Fairness

`qman_poll` runs its loop to completion on the calling thread (spec 5: "none
suspend"). So once it is called, the iteration keeps being taken and the
return happens when enabled. The model assumes:
- weak fairness of `QmanPollReturn`;
- weak fairness of `AppQmanPollStep`, written out as `[]<>~PollCanStep \/ []<><<AppQmanPollStep>>_vars`.

`PollCanStep` is the iteration's enabling condition. Its choices range over non-empty sets, and it always flips `nolimit_first`. This spares TLC evaluating
`ENABLED` over the recursive flow-level operators. Nothing is assumed about the
caller: `qman_set` and `qman_poll` calls need not happen.

In `LibtasContext`:
- the application polls again and again (the loop of lowlevel.c, and the loop
  of the sockets layer). `ContextPoll` flips `parity`, so every poll is a step,
  and weak fairness of the poll is written `[]<><<Poll>>_vars`;
- each fast-path core keeps draining its tx ring (weak fairness of
  `FpConsume(q)`);
- the kernel reports a flow it has set up (weak fairness of `KernelOpenReply`).

Fast-path deliveries, application calls and closes need not happen.

In `SocketsContext`, libtas eventually answers every open request outstanding
for a struct (weak fairness of `PollOpen(s)` for each struct): the kernel
answers listen, connect and accept requests; for libtas that holds once
the poll's event array is large enough for the open (init.c:559). Data, close and shutdown events, and socket calls, need not
happen.

In `Ivshmem`, the proxy's main loop (not in this repository) calls
`ivshmem_poll` again and again (weak fairness of `IvshmemPoll`), and a blocked
`accept()` returns once a qemu is connecting (weak fairness of
`AcceptReturns`). Qemus, guests and TAS signals need not act.

## Not modelled, and the plan

- `qman_next_ts` (qman.c:205–247): a read-only query. It reads `timestamp()`
  instead of its argument, looks only at the head application, and divides by
  1000. Planned: an operator and a property relating its answer to the next
  due skip-list entry.
- The low-rate overflow of `flow_queue_new_ts` (one `max_chunk` spanning more
  than half the period) and unconfigured flows (`max_chunk` 0). Planned as
  small separate runs.
- An abstract specification of the flow scheduler, with the skip list shown to
  implement a sorted sequence by a refinement mapping (`INSTANCE ... WITH`).
  Also spec 8's conservation and alternation properties.
- libtas: `flextcp_context_canwait`, `waitclear` and `wait` (the blocking
  protocol, init.c:961-1047) are planned next. `flextcp_init` and
  `flextcp_kernel_newctx` are I/O setup. `fastpath_poll` (init.c:186) is not
  called. `fetch_8ts`/`fetch_4ts` are unrolled forms of the type fetch that
  `GatherRound` models. Listener entries (`LISTEN_OPEN`, `LISTEN_NEWCONN`,
  `LISTEN_MOVE`) only produce an event and are not enumerated. The kernel and
  the fast path are not in this repository and are environment actions. The
  model closes only connections with no bump pending (see the hazard at
  init.c:923).
- Sockets: data transfer (`tas_recv`, `tas_send`: transfer.c is not in this
  repository; `rx` stands for the received pieces), `ev_conn_moved`,
  `ev_listen_moved`, `tas_move_conn` and `tas_fork` (one thread, so moves are
  no-ops), `ev_listen_newconn` (empty), fd and epoll internals (fd.c,
  epoll.c are not in the repository), socket options and names, and failures
  of the conn.c calls (`connection_open`; `listen_open`, whose failure path
  in `tas_listen` frees the backlog at control.c:464 and again at 506, a
  double free; `listen_accept`, whose failure in `enqueue_accept` closes the
  fd and stops the refill, control.c:398-403; `connection_close`, the leak
  hazard at control.c:198).
- ivshmem: `uxsocket_init`, `uxsocket_send_int`, `uxsocket_sendfd` and
  `notify_guest` are socket and eventfd I/O; their failures are the `ok`
  choice of an accept. The leaked buffers of `channel_poll_vm` and
  `channel_handle_tasinforeq_msg` are not modelled. The guest side and
  `channel.h` are not in this repository.
- `connect.c` (mmap and file setup) and `src/tests/lowlevel.c` (a test driver)
  are out of TLC's reach or not part of the system.

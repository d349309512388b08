---------------------------- MODULE LibtasContext ----------------------------
(***************************************************************************)
(* One flextcp_context of libtas (src/lib/tas/init.c) and the parties it   *)
(* shares memory with:                                                     *)
(*  - the kernel, which writes kernel_appin entries into the kout ring;    *)
(*  - the fast path, which writes connection updates into one arx ring per *)
(*    fast-path core and reads the application's updates from one atx      *)
(*    ring per core;                                                       *)
(*  - the connection calls of libtas (rx_done, tx_send, tx_close, close),  *)
(*    whose code (conn.c) is not in this repository.                       *)
(* flextcp_context_poll is one atomic step of the application thread: the *)
(* other parties only ever fill an empty slot or empty a full one, so a    *)
(* poll that reads a slot sees it either before or after their step.       *)
(* Positions are slot indices (byte offsets / sizeof(entry)).              *)
(***************************************************************************)
EXTENDS Integers, Sequences, FiniteSetsExt

CONSTANTS
  Conns,          \* connection handles (struct flextcp_connection)
  Listener,       \* the opaque of kernel entries about a listener
  NumQueues,      \* ctx->num_queues, fast-path cores
  KoutLen,        \* kernel -> application ring, in entries
  RxqLen,         \* fast path -> application rings, in entries
  TxqLen,         \* application -> fast path rings, in entries
  RxbLen,         \* per-connection receive buffer (rx_len)
  TxbLen,         \* per-connection transmit buffer (tx_len)
  Nums,           \* event array sizes the caller passes to poll
  MaxRxBytes,     \* bound: bytes the fast path delivers per connection
  MaxTxBytes,     \* bound: bytes the application sends per connection
  MaxMoves        \* bound: moves of a connection to another core

ASSUME /\ NumQueues >= 1 /\ KoutLen >= 1 /\ RxqLen >= 1 /\ TxqLen >= 2
       /\ RxbLen >= 1 /\ TxbLen >= 1 /\ Nums \subseteq Nat \ {0}

Queues == 0 .. NumQueues - 1

(* The operators named ...Bug are variants of the operator after them    *)
(* with one plausible coding error each; each property is shown to catch *)
(* one of them.                                                          *)

\* kernel_appin types the kernel writes (KERNEL_APPIN_INVALID is "INVALID").
KernelTypes == {"CONN_OPENED", "ACCEPTED_CONN", "LISTEN_NEWCONN", "LISTEN_OPEN",
                "CONN_MOVE", "LISTEN_MOVE", "CONN_CLOSE"}

\* conn->status values.
ConnStates == {"OPEN_REQUESTED", "ACCEPT_REQUESTED", "OPEN", "CLOSE_REQUESTED",
               "CLOSED"}
Requested == {"OPEN_REQUESTED", "ACCEPT_REQUESTED"}

\* The empty slot of every ring (the rings are zeroed shared memory).
NoEntry == [type |-> "INVALID", c |-> Listener, status |-> 0, core |-> 0,
            rx |-> 0, tx |-> 0, eos |-> FALSE]

\* struct flextcp_event, with the receive buffer as an offset into rx_len.
Ev(t, c, st, off, len) == [type |-> t, c |-> c, status |-> st, off |-> off, len |-> len]

VARIABLES
  kout,     \* the kout ring (kernel -> application)
  arx,      \* arx[q]: the rx ring of fast-path core q
  atx,      \* atx[q]: the tx ring of fast-path core q
  ctx,      \* struct flextcp_context: ring positions, bump list, next_queue
  conn,     \* conn[c]: struct flextcp_connection
  kern,     \* the kernel: its view of each connection, its kout tail
  fp,       \* the fast path: per connection its core and credits
  fpq,      \* the fast path: arx tails and atx heads
  evs,      \* the events the last flextcp_context_poll returned
  rxFrom,   \* stream bytes announced to the application before that poll
  aborted,  \* an assert() or abort() of the code was reached
  parity,   \* flips on every poll, so that each poll is a visible step
  txTotal   \* bytes the application has sent per connection (bounded)

vars == <<kout, arx, atx, ctx, conn, kern, fp, fpq, evs, rxFrom, aborted, parity,
          txTotal>>

-----------------------------------------------------------------------------
(* Helpers of the connection calls (conn.c, not in this repository).        *)

\* flextcp_conn_txbuf_available: tx_len minus sent and allocated bytes; the
\* model allocates and sends in one call, so nothing stays allocated.
TxbufAvailable(k) == TxbLen - k.txb_sent

InBump(b, c) == \E i \in 1 .. Len(b) : b[i] = c

\* Put c on the bump_pending list unless it is there already.
BumpAdd(s, c) ==
  IF InBump(s.ctx.bump, c) THEN s ELSE [s EXCEPT !.ctx.bump = Append(@, c)]

\* flextcp_conn_pushtxeos: allocate the end-of-stream byte and bump it; it
\* fails when the transmit buffer is full (event_arx_connupdate aborts then).
PushTxEos(s, c) ==
  IF TxbufAvailable(s.conn[c]) = 0
  THEN [s EXCEPT !.aborted = TRUE]
  ELSE BumpAdd([s EXCEPT !.conn[c].flags = @ \cup {"TXEOS_ALLOC"},
                         !.conn[c].txb_sent = @ + 1,
                         !.conn[c].txb_bump = @ + 1], c)

-----------------------------------------------------------------------------
(* kernel_poll and the event_kappin_* handlers.                            *)

(* event_kappin_conn_opened / event_kappin_accept_conn, after the checks:  *)
(* the connection is open; inject the bytes and the end of stream that     *)
(* arrived before the kernel's confirmation.                               *)
OpenedInject(s, c, ev) ==
  LET k   == s.conn[c]
      inj == (IF k.rxb_used > 0
              THEN <<Ev("CONN_RECEIVED", c, 0, 0, k.rxb_used)>> ELSE <<>>)
             \o (IF k.rx_closed THEN <<Ev("CONN_RXCLOSED", c, 0, 0, 0)>> ELSE <<>>)
  IN  [st |-> [s EXCEPT !.evs = (@ \o <<ev>>) \o inj], j |-> 1 + Len(inj)]

(* event_kappin_conn_opened / event_kappin_accept_conn: a failed open      *)
(* closes the connection; -1 when the injected events would not fit.       *)
EventConnOpened(s, e, avail) ==
  LET c  == e.c
      k  == s.conn[c]
      ev == Ev(IF e.type = "CONN_OPENED" THEN "CONN_OPEN" ELSE "LISTEN_ACCEPT",
               c, e.status, 0, 0)
  IN  CASE e.status # 0 ->
             [st |-> [s EXCEPT !.conn[c].status = "CLOSED", !.evs = Append(@, ev)],
              j |-> 1]
        [] k.rxb_used > 0 /\ k.rx_closed /\ avail < 3 -> [st |-> s, j |-> -1]
        [] (k.rxb_used > 0 \/ k.rx_closed) /\ avail < 2 -> [st |-> s, j |-> -1]
        [] OTHER ->
             OpenedInject([s EXCEPT !.conn[c].status = "OPEN",
                                    !.conn[c].fn_core = e.core], c, ev)

\* An entry that yields exactly one event and changes no state.
EmitOne(s, t, e) == [st |-> [s EXCEPT !.evs = Append(@, Ev(t, e.c, e.status, 0, 0))],
                     j |-> 1]

(* The type dispatch of kernel_poll.  Its test for LISTEN_MOVE is          *)
(* `else if (KERNEL_APPIN_STATUS_LISTEN_MOVE)', a non-zero constant, so    *)
(* every later type, CONN_CLOSE included, is handled as a listener move.   *)
KernelEvent(s, e, avail) ==
  CASE e.type \in {"CONN_OPENED", "ACCEPTED_CONN"} -> EventConnOpened(s, e, avail)
    [] e.type = "LISTEN_NEWCONN" -> EmitOne(s, "LISTEN_NEWCONN", e)
    [] e.type = "LISTEN_OPEN"    -> EmitOne(s, "LISTEN_OPEN", e)
    [] e.type = "CONN_MOVE"      -> EmitOne(s, "CONN_MOVED", e)
    [] OTHER                     -> EmitOne(s, "LISTEN_MOVED", e)

RECURSIVE KernelPoll(_, _, _)

\* After one entry: stop on -1, else invalidate the slot and move on.
KernelPollNext(r, num, i) ==
  IF r.j = -1 THEN [st |-> r.st, used |-> i, failed |-> TRUE]
  ELSE KernelPoll([r.st EXCEPT !.kout[r.st.ctx.kout_head] = NoEntry,
                               !.ctx.kout_head = (@ + 1) % KoutLen],
                  num, i + r.j)

(* kernel_poll: handle kout entries from kout_head until num events or an  *)
(* empty slot; a handler returning -1 leaves its entry in place.           *)
KernelPoll(s, num, i) ==
  IF i >= num \/ s.kout[s.ctx.kout_head].type = "INVALID"
  THEN [st |-> s, used |-> i, failed |-> FALSE]
  ELSE KernelPollNext(KernelEvent(s, s.kout[s.ctx.kout_head], num - i), num, i)

-----------------------------------------------------------------------------
(* event_arx_connupdate.                                                    *)

\* tx_avail_ev: acknowledged bytes arrive while the transmit buffer is full.
TxAvailEv(k, e) == e.tx > 0 /\ TxbufAvailable(k) = 0

\* evs_needed: the events the update will generate.
EvsNeeded(k, e) ==
  (IF e.rx > 0 THEN IF k.rxb_head + e.rx > RxbLen THEN 2 ELSE 1 ELSE 0)
  + (IF TxAvailEv(k, e) THEN 1 ELSE 0)
  + (IF "TXEOS_ALLOC" \in k.flags /\ k.txb_sent - e.tx = 0 THEN 1 ELSE 0)
  + (IF e.eos THEN 1 ELSE 0)

\* Bug: bytes that wrap around the end of the buffer are announced as one event.
ConnUpdateRxBug(s, e) ==
  LET c == e.c
      h == s.conn[c].rxb_head
  IN  IF e.rx = 0 THEN s
      ELSE [s EXCEPT
             !.evs = Append(@, Ev("CONN_RECEIVED", c, 0, h, e.rx)),
             !.conn[c].rxb_head = IF h + e.rx >= RxbLen THEN h + e.rx - RxbLen
                                  ELSE h + e.rx,
             !.conn[c].rxb_used = @ + e.rx]

(* The receive part: one event, or two when the bytes wrap around the end *)
(* of the receive buffer; then advance rxb_head modulo rx_len.            *)
ConnUpdateRx(s, e) ==
  LET c == e.c
      h == s.conn[c].rxb_head
  IN  IF e.rx = 0 THEN s
      ELSE [s EXCEPT
             !.evs = @ \o (IF h + e.rx > RxbLen
                           THEN <<Ev("CONN_RECEIVED", c, 0, h, RxbLen - h),
                                  Ev("CONN_RECEIVED", c, 0, 0, e.rx - (RxbLen - h))>>
                           ELSE <<Ev("CONN_RECEIVED", c, 0, h, e.rx)>>),
             !.conn[c].rxb_head = IF h + e.rx >= RxbLen THEN h + e.rx - RxbLen
                                  ELSE h + e.rx,
             !.conn[c].rxb_used = @ + e.rx]

\* Bug: the end of stream counts as acknowledged without txb_sent reaching 0.
TxEosStepBug(s, c) ==
  LET k == s.conn[c]
  IN  CASE "TXEOS" \in k.flags /\ "TXEOS_ALLOC" \notin k.flags -> PushTxEos(s, c)
        [] "TXEOS_ALLOC" \in k.flags ->
             [s EXCEPT !.aborted = @ \/ "TXEOS_ACK" \in k.flags,
                       !.conn[c].flags = @ \cup {"TXEOS_ACK"},
                       !.evs = Append(@, Ev("CONN_TXCLOSED", c, 0, 0, 0))]
        [] OTHER -> s

(* After the acknowledged bytes are taken off txb_sent: push a deferred    *)
(* end of stream, or, once the end of stream is acknowledged (nothing is   *)
(* left unacknowledged), report the transmit side closed.                  *)
TxEosStep(s, c) ==
  LET k == s.conn[c]
  IN  CASE "TXEOS" \in k.flags /\ "TXEOS_ALLOC" \notin k.flags -> PushTxEos(s, c)
        [] "TXEOS_ALLOC" \in k.flags /\ k.txb_sent = 0 ->
             [s EXCEPT !.aborted = @ \/ "TXEOS_ACK" \in k.flags,
                       !.conn[c].flags = @ \cup {"TXEOS_ACK"},
                       !.evs = Append(@, Ev("CONN_TXCLOSED", c, 0, 0, 0))]
        [] "TXEOS_ALLOC" \in k.flags ->
             [s EXCEPT !.aborted = @ \/ "TXEOS_ACK" \in k.flags]
        [] OTHER -> s

\* The transmit part: fewer bytes in flight, and a send-buffer event.
ConnUpdateTx(s, e, k) ==
  IF e.tx = 0 THEN s
  ELSE TxEosStep([s EXCEPT !.conn[e.c].txb_sent = @ - e.tx,
                           !.evs = IF TxAvailEv(k, e)
                                   THEN Append(@, Ev("CONN_SENDBUF", e.c, 0, 0, 0))
                                   ELSE @], e.c)

\* The end-of-stream part.
ConnUpdateEos(s, e) ==
  IF e.eos THEN [s EXCEPT !.conn[e.c].rx_closed = TRUE,
                          !.evs = Append(@, Ev("CONN_RXCLOSED", e.c, 0, 0, 0))]
  ELSE s

\* The result with j, the number of events generated.
Counted(s, n) == [st |-> s, j |-> Len(s.evs) - n]

(* event_arx_connupdate for an open connection, all events fitting.        *)
ConnUpdateOpen(s, e) ==
  Counted(ConnUpdateEos(ConnUpdateTx(ConnUpdateRx(s, e), e, s.conn[e.c]), e),
          Len(s.evs))

\* Bug: an update for a closing connection is left in the ring (-1).
ConnUpdateAtBug(s, e, outn) ==
  LET k == s.conn[e.c]
  IN  CASE k.status \in Requested ->
             [st |-> [s EXCEPT !.aborted = @ \/ e.tx # 0,
                               !.conn[e.c].rx_closed = e.eos,
                               !.conn[e.c].rxb_head = @ + e.rx,
                               !.conn[e.c].rxb_used = @ + e.rx],
              j |-> 0]
        [] k.status \in {"CLOSED", "CLOSE_REQUESTED"} -> [st |-> s, j |-> -1]
        [] EvsNeeded(k, e) > outn -> [st |-> s, j |-> -1]
        [] OTHER -> ConnUpdateOpen(s, e)

(* event_arx_connupdate after fn_core is set: before the kernel confirmed *)
(* the connection the bytes are only counted (tx_bump must be 0); updates  *)
(* for closed or closing connections are dropped; -1 when the events do    *)
(* not fit in outn.                                                        *)
ConnUpdateAt(s, e, outn) ==
  LET k == s.conn[e.c]
  IN  CASE k.status \in Requested ->
             [st |-> [s EXCEPT !.aborted = @ \/ e.tx # 0,
                               !.conn[e.c].rx_closed = e.eos,
                               !.conn[e.c].rxb_head = @ + e.rx,
                               !.conn[e.c].rxb_used = @ + e.rx],
              j |-> 0]
        [] k.status \in {"CLOSED", "CLOSE_REQUESTED"} -> [st |-> s, j |-> 0]
        [] EvsNeeded(k, e) > outn -> [st |-> s, j |-> -1]
        [] OTHER -> ConnUpdateOpen(s, e)

\* event_arx_connupdate: the update arrived on the rx ring of core q.
ConnUpdate(s, e, outn, q) == ConnUpdateAt([s EXCEPT !.conn[e.c].fn_core = q], e, outn)

-----------------------------------------------------------------------------
(* fastpath_poll_vec.                                                       *)

RECURSIVE GatherRound(_, _, _, _, _), GatherTake(_, _, _, _, _, _),
          Gather(_, _, _, _), GatherAgain(_, _, _, _),
          ProcessBatch(_, _, _, _, _), ProcessEntry(_, _, _, _, _, _),
          ProcessNext(_, _, _, _, _),
          PollVecLoop(_, _, _, _, _), PollVecRound(_, _, _, _), PollVecAfter(_, _, _)

(* One round of the gathering loop: for each core from next_queue, while   *)
(* fewer than room entries are gathered, take the entry at qheads[q] if it *)
(* is a CONNUPDATE and advance qheads[q].                                  *)
GatherRound(s, qh, room, batch, k) ==
  IF k >= NumQueues \/ Len(batch) >= room THEN [qh |-> qh, batch |-> batch]
  ELSE GatherTake(s, qh, room, batch, k, (s.ctx.next_queue + k) % NumQueues)

GatherTake(s, qh, room, batch, k, q) ==
  IF s.arx[q][qh[q]].type = "CONNUPDATE"
  THEN GatherRound(s, [qh EXCEPT ![q] = (@ + 1) % RxqLen], room, Append(batch, q), k + 1)
  ELSE GatherRound(s, qh, room, batch, k + 1)

\* Rounds repeat while the last one found an entry and there is room.
Gather(s, qh, room, batch) ==
  IF Len(batch) >= room THEN [qh |-> qh, batch |-> batch]
  ELSE GatherAgain(s, GatherRound(s, qh, room, batch, 0), room, Len(batch))

GatherAgain(s, r, room, n) ==
  IF Len(r.batch) = n THEN r ELSE Gather(s, r.qh, room, r.batch)

(* The processing loop: hand the gathered entries in order to             *)
(* event_arx_connupdate; an entry that does not fit (-1) stays in place    *)
(* and ends the poll; q is the core of the last entry looked at.           *)
ProcessBatch(s, batch, k, i, num) ==
  IF k > Len(batch) \/ i >= num
  THEN [st |-> s, i |-> i, ran_out |-> FALSE, q |-> batch[k - 1]]
  ELSE ProcessEntry(s, s.arx[batch[k]][s.ctx.rxq_head[batch[k]]], batch, k, i, num)

(* An entry gathered twice, because the gathering went once around a full *)
(* ring, is empty when its turn comes: the assert on its type fails (with  *)
(* NDEBUG it yields no event and the head still advances).                 *)
ProcessEntry(s, e, batch, k, i, num) ==
  IF e.type = "INVALID"
  THEN ProcessNext([st |-> [s EXCEPT !.aborted = TRUE], j |-> 0], batch, k, i, num)
  ELSE ProcessNext(ConnUpdate(s, e, num - i, batch[k]), batch, k, i, num)

ProcessNext(r, batch, k, i, num) ==
  IF r.j = -1 THEN [st |-> r.st, i |-> i, ran_out |-> TRUE, q |-> batch[k]]
  ELSE ProcessBatch([r.st EXCEPT !.arx[batch[k]][r.st.ctx.rxq_head[batch[k]]] = NoEntry,
                                 !.ctx.rxq_head[batch[k]] = (@ + 1) % RxqLen],
                    batch, k + 1, i + r.j, num)

(* The outer loop, while i < num and no entry ran out of room; q is the    *)
(* value next_queue gets at the end.  qheads is the function's local copy  *)
(* of the heads, advanced by gathering.                                    *)
PollVecLoop(s, qh, i, num, q) ==
  IF i >= num THEN [st |-> s, i |-> i, q |-> q]
  ELSE PollVecRound(s, Gather(s, qh, num - i, <<>>), i, num)

PollVecRound(s, g, i, num) ==
  IF g.batch = <<>> THEN [st |-> s, i |-> i, q |-> s.ctx.next_queue]
  ELSE PollVecAfter(ProcessBatch(s, g.batch, 1, i, num), g.qh, num)

PollVecAfter(r, qh, num) ==
  IF r.ran_out THEN [st |-> r.st, i |-> r.i, q |-> (r.q + 1) % NumQueues]
  ELSE PollVecLoop(r.st, qh, r.i, num, (r.q + 1) % NumQueues)

\* fastpath_poll_vec: the state after it, with next_queue updated.
FastpathPollVec(s, num) ==
  LET r == PollVecLoop(s, s.ctx.rxq_head, 0, num, s.ctx.next_queue)
  IN  [r.st EXCEPT !.ctx.next_queue = r.q]

-----------------------------------------------------------------------------
(* txq_probe and conns_bump.                                               *)

RECURSIVE ProbeScan(_, _, _, _, _), ConnsBump(_)

\* Bug: the scan does not stop when the whole ring is available.
ProbeScanBug(ring, pos, avail, i, lim) ==
  IF i < lim /\ ring[pos].type = "INVALID"
  THEN ProbeScan(ring, (pos + 1) % TxqLen, avail + 1, i + 1, lim)
  ELSE avail

\* The scan of txq_probe: count free slots after tail + avail, at most lim.
ProbeScan(ring, pos, avail, i, lim) ==
  IF avail < TxqLen /\ i < lim /\ ring[pos].type = "INVALID"
  THEN ProbeScan(ring, (pos + 1) % TxqLen, avail + 1, i + 1, lim)
  ELSE avail

\* Bug: the scan starts at txq_tail, counting available slots again.
TxqProbeBug(s, n) ==
  [s EXCEPT !.ctx.txq_avail =
     [q \in Queues |->
        IF 2 * s.ctx.txq_avail[q] > TxqLen THEN s.ctx.txq_avail[q]
        ELSE ProbeScan(s.atx[q], s.ctx.txq_tail[q], s.ctx.txq_avail[q], 0, 2 * n)]]

\* Bug: the half-full test is inverted, so a full ring is never probed.
TxqProbeSkipBug(s, n) ==
  [s EXCEPT !.ctx.txq_avail =
     [q \in Queues |->
        IF 2 * s.ctx.txq_avail[q] <= TxqLen THEN s.ctx.txq_avail[q]
        ELSE ProbeScan(s.atx[q], (s.ctx.txq_tail[q] + s.ctx.txq_avail[q]) % TxqLen,
                       s.ctx.txq_avail[q], 0, 2 * n)]]

(* txq_probe: for each core whose txq_avail is at most half the ring,      *)
(* reclaim the slots the fast path has emptied, at most 2n of them.        *)
TxqProbe(s, n) ==
  [s EXCEPT !.ctx.txq_avail =
     [q \in Queues |->
        IF 2 * s.ctx.txq_avail[q] > TxqLen THEN s.ctx.txq_avail[q]
        ELSE ProbeScan(s.atx[q], (s.ctx.txq_tail[q] + s.ctx.txq_avail[q]) % TxqLen,
                       s.ctx.txq_avail[q], 0, 2 * n)]]

\* flextcp_context_tx_alloc: the tx ring of core q has a free slot.
TxAlloc(s, q) == s.ctx.txq_avail[q] # 0

(* flextcp_context_tx_done: the slot at txq_tail is handed to the fast     *)
(* path (the kick of its core, a write to an eventfd, is left out).        *)
TxDone(s, q) ==
  [s EXCEPT !.ctx.txq_tail[q] = (@ + 1) % TxqLen, !.ctx.txq_avail[q] = @ - 1]

\* The atx entry conns_bump writes for connection k.
BumpEntry(c, k) ==
  [NoEntry EXCEPT !.type = "CONNUPDATE", !.c = c, !.rx = k.rxb_bump,
                  !.tx = k.txb_bump, !.eos = "TXEOS_ALLOC" \in k.flags]

\* Bug: rxb_bump is not reset after the bump is written.
ConnsBumpBug(s) ==
  IF s.ctx.bump = <<>> THEN s
  ELSE LET c == Head(s.ctx.bump)
           q == s.conn[c].fn_core
       IN  IF ~TxAlloc(s, q)
           THEN [s EXCEPT !.aborted = @ \/ s.conn[c].status # "OPEN"]
           ELSE ConnsBump([TxDone([s EXCEPT
                  !.aborted = @ \/ s.conn[c].status # "OPEN",
                  !.atx[q][s.ctx.txq_tail[q]] = BumpEntry(c, s.conn[c])], q) EXCEPT
                  !.conn[c].txb_bump = 0,
                  !.ctx.bump = Tail(@)])

(* conns_bump: for each connection on the bump_pending list (which must be *)
(* open), write its pending rx/tx bumps into the tx ring of its fn_core    *)
(* (flextcp_context_tx_alloc / _tx_done) and clear them; stop when a ring  *)
(* is full.                                                                *)
ConnsBump(s) ==
  IF s.ctx.bump = <<>> THEN s
  ELSE LET c == Head(s.ctx.bump)
           q == s.conn[c].fn_core
       IN  IF ~TxAlloc(s, q)
           THEN [s EXCEPT !.aborted = @ \/ s.conn[c].status # "OPEN"]
           ELSE ConnsBump([TxDone([s EXCEPT
                  !.aborted = @ \/ s.conn[c].status # "OPEN",
                  !.atx[q][s.ctx.txq_tail[q]] = BumpEntry(c, s.conn[c])], q) EXCEPT
                  !.conn[c].rxb_bump = 0,
                  !.conn[c].txb_bump = 0,
                  !.ctx.bump = Tail(@)])

-----------------------------------------------------------------------------
(* flextcp_context_poll.                                                   *)

\* The shared and private state one poll works on, with no events yet.
PollState == [kout |-> kout, arx |-> arx, atx |-> atx, ctx |-> ctx, conn |-> conn,
              evs |-> <<>>, aborted |-> aborted]

(* After kernel_poll: a poll whose kernel part ran out of event space       *)
(* returns at once; otherwise the fast-path queues get the rest of the     *)
(* event array, then txq_probe(num) and conns_bump run.                    *)
PollAfterKernel(r, num) ==
  IF r.failed THEN r.st
  ELSE ConnsBump(TxqProbe(FastpathPollVec(r.st, num - r.used), num))

\* Bytes of the RECEIVED events in a sequence of events, for connection c.
RECURSIVE RecvBytes(_, _)
RecvBytes(es, c) ==
  IF es = <<>> THEN 0
  ELSE (IF Head(es).type = "CONN_RECEIVED" /\ Head(es).c = c THEN Head(es).len ELSE 0)
       + RecvBytes(Tail(es), c)

\* The stream position each connection's announced bytes have reached.
Announced(c) == rxFrom[c] + RecvBytes(evs, c)

PollCommit(s) ==
  /\ kout' = s.kout /\ arx' = s.arx /\ atx' = s.atx /\ ctx' = s.ctx
  /\ conn' = s.conn /\ evs' = s.evs /\ aborted' = s.aborted
  /\ rxFrom' = [c \in Conns |-> Announced(c)]
  /\ parity' = 1 - parity
  /\ UNCHANGED <<kern, fp, fpq, txTotal>>

(* flextcp_context_poll(ctx, num, events): the whole call, as one step of  *)
(* the application thread.                                                 *)
ContextPoll(num) == PollCommit(PollAfterKernel(KernelPoll(PollState, num, 0), num))

-----------------------------------------------------------------------------
(* The connection calls of the application (declared in tas_ll.h; their   *)
(* code, conn.c, is not in this repository).  Each changes only the        *)
(* connection and the bump list and puts the connection on the list.      *)

AppCommit(s) ==
  /\ conn' = s.conn /\ ctx' = s.ctx /\ aborted' = s.aborted
  /\ UNCHANGED <<kout, arx, atx, kern, fp, fpq, evs, rxFrom, parity>>

\* flextcp_connection_rx_done: n announced bytes are freed and bumped.
AppRxDone(c, n) ==
  /\ conn[c].status = "OPEN" /\ 1 <= n /\ n <= conn[c].rxb_used
  /\ AppCommit(BumpAdd([PollState EXCEPT !.conn[c].rxb_used = @ - n,
                                         !.conn[c].rxb_bump = @ + n], c))
  /\ UNCHANGED txTotal

\* flextcp_connection_tx_alloc + tx_send: n bytes are sent and bumped.
AppTxSend(c, n) ==
  /\ conn[c].status = "OPEN" /\ "TXEOS" \notin conn[c].flags
  /\ 1 <= n /\ n <= TxbufAvailable(conn[c]) /\ txTotal[c] + n <= MaxTxBytes
  /\ AppCommit(BumpAdd([PollState EXCEPT !.conn[c].txb_sent = @ + n,
                                         !.conn[c].txb_bump = @ + n], c))
  /\ txTotal' = [txTotal EXCEPT ![c] = @ + n]

(* flextcp_connection_tx_close: mark the end of stream; it is pushed at    *)
(* once when the transmit buffer has room, and otherwise by               *)
(* event_arx_connupdate once acknowledgements free room.                   *)
AppTxClose(c) ==
  /\ conn[c].status = "OPEN" /\ "TXEOS" \notin conn[c].flags
  /\ LET s == [PollState EXCEPT !.conn[c].flags = @ \cup {"TXEOS"}]
     IN  AppCommit(IF TxbufAvailable(conn[c]) > 0 THEN PushTxEos(s, c) ELSE s)
  /\ UNCHANGED txTotal

(* flextcp_connection_close: the connection is closing and the kernel is   *)
(* asked to close it.  The model closes only connections with no bump      *)
(* pending.                                                                *)
AppConnClose(c) ==
  /\ conn[c].status = "OPEN" /\ ~InBump(ctx.bump, c)
  /\ conn' = [conn EXCEPT ![c].status = "CLOSE_REQUESTED"]
  /\ kern' = [kern EXCEPT !.st[c] = "closing"]
  /\ UNCHANGED <<kout, arx, atx, ctx, fp, fpq, evs, rxFrom, aborted, parity, txTotal>>

-----------------------------------------------------------------------------
(* The kernel.                                                             *)

KoutFree == kout[kern.tail].type = "INVALID"

\* Write entry e at the kernel's tail of the kout ring.
Post(e) ==
  /\ KoutFree
  /\ kout' = [kout EXCEPT ![kern.tail] = e]

Posted(k) == [k EXCEPT !.tail = (@ + 1) % KoutLen]

\* The kout entry answering c's open or accept request with status st.
OpenReplyEntry(c, st) ==
  [NoEntry EXCEPT !.type = IF conn[c].status = "OPEN_REQUESTED"
                           THEN "CONN_OPENED" ELSE "ACCEPTED_CONN",
                  !.c = c, !.status = st, !.core = fp[c].core]

(* The kernel sets the flow up on fast-path core q.  The fast path may     *)
(* deliver data from now on, before the application sees the answer (the  *)
(* race event_arx_connupdate handles).                                     *)
KernelFlowSetup(c, q) ==
  /\ kern.st[c] = "requested"
  /\ kern' = [kern EXCEPT !.st[c] = "setup"]
  /\ fp' = [fp EXCEPT ![c].active = TRUE, ![c].core = q]
  /\ UNCHANGED <<kout, arx, atx, ctx, conn, fpq, evs, rxFrom, aborted, parity, txTotal>>

\* The kernel reports the set-up flow as open (status 0).
KernelOpenReply(c) ==
  /\ kern.st[c] = "setup"
  /\ Post(OpenReplyEntry(c, 0))
  /\ kern' = Posted([kern EXCEPT !.st[c] = "open"])
  /\ UNCHANGED <<arx, atx, ctx, conn, fp, fpq, evs, rxFrom, aborted, parity, txTotal>>

\* The kernel reports the request as failed (a non-zero status).
KernelOpenFail(c) ==
  /\ kern.st[c] = "requested"
  /\ Post(OpenReplyEntry(c, 1))
  /\ kern' = Posted([kern EXCEPT !.st[c] = "failed"])
  /\ UNCHANGED <<arx, atx, ctx, conn, fp, fpq, evs, rxFrom, aborted, parity, txTotal>>

\* The kernel has closed the flow and reports it.
KernelCloseReply(c) ==
  /\ kern.st[c] = "closing"
  /\ Post([NoEntry EXCEPT !.type = "CONN_CLOSE", !.c = c])
  /\ kern' = Posted([kern EXCEPT !.st[c] = "closed"])
  /\ fp' = [fp EXCEPT ![c].active = FALSE]
  /\ UNCHANGED <<arx, atx, ctx, conn, fpq, evs, rxFrom, aborted, parity, txTotal>>

\* flextcp_connection_move, carried out: the flow moves to core q.
KernelMove(c, q) ==
  /\ kern.st[c] = "open" /\ conn[c].status = "OPEN"
  /\ kern.moves < MaxMoves /\ q # fp[c].core
  /\ Post([NoEntry EXCEPT !.type = "CONN_MOVE", !.c = c])
  /\ kern' = Posted([kern EXCEPT !.moves = @ + 1])
  /\ fp' = [fp EXCEPT ![c].core = q]
  /\ UNCHANGED <<arx, atx, ctx, conn, fpq, evs, rxFrom, aborted, parity, txTotal>>

-----------------------------------------------------------------------------
(* The fast path.                                                          *)

(* A connection update on the rx ring of the flow's core: rx new bytes    *)
(* (within the receive credit), tx acknowledged bytes, and the end of the  *)
(* peer's stream.                                                          *)
FpUpdate(c, rx, tx, eos) ==
  LET q == fp[c].core
      f == fp[c]
  IN  /\ f.active
      /\ arx[q][fpq.rxTail[q]].type = "INVALID"
      /\ rx <= f.rxFree /\ f.rxSent + rx <= MaxRxBytes /\ tx <= f.txUnacked
      /\ f.eosSent => rx = 0 /\ ~eos
      /\ rx + tx > 0 \/ eos
      /\ arx' = [arx EXCEPT ![q][fpq.rxTail[q]] =
                   [NoEntry EXCEPT !.type = "CONNUPDATE", !.c = c, !.rx = rx,
                                   !.tx = tx, !.eos = eos]]
      /\ fpq' = [fpq EXCEPT !.rxTail[q] = (@ + 1) % RxqLen]
      /\ fp' = [fp EXCEPT ![c].rxFree = @ - rx, ![c].rxSent = @ + rx,
                          ![c].txUnacked = @ - tx, ![c].eosSent = @ \/ eos]
      /\ UNCHANGED <<kout, atx, ctx, conn, kern, evs, rxFrom, aborted, parity, txTotal>>

\* Core q takes the next entry of its tx ring: credit back, bytes to send.
FpConsume(q) ==
  LET e == atx[q][fpq.txHead[q]]
  IN  /\ e.type = "CONNUPDATE"
      /\ atx' = [atx EXCEPT ![q][fpq.txHead[q]] = NoEntry]
      /\ fpq' = [fpq EXCEPT !.txHead[q] = (@ + 1) % TxqLen]
      /\ fp' = [fp EXCEPT ![e.c].rxFree = @ + e.rx, ![e.c].txUnacked = @ + e.tx]
      /\ UNCHANGED <<kout, arx, ctx, conn, kern, evs, rxFrom, aborted, parity, txTotal>>

-----------------------------------------------------------------------------
(* The specification.                                                      *)

Ring(n) == [i \in 0 .. n - 1 |-> NoEntry]

(* A context after flextcp_context_create (zeroed, with empty rings and    *)
(* full tx rings available) whose connections have each been asked to      *)
(* open or accept, before any answer.                                      *)
Init ==
  /\ kout = Ring(KoutLen)
  /\ arx = [q \in Queues |-> Ring(RxqLen)]
  /\ atx = [q \in Queues |-> Ring(TxqLen)]
  /\ ctx = [kout_head |-> 0, rxq_head |-> [q \in Queues |-> 0],
            txq_tail |-> [q \in Queues |-> 0], txq_avail |-> [q \in Queues |-> TxqLen],
            next_queue |-> 0, bump |-> <<>>]
  /\ conn \in [Conns -> {[status |-> st, rxb_head |-> 0, rxb_used |-> 0, rxb_bump |-> 0,
                           txb_sent |-> 0, txb_bump |-> 0, fn_core |-> 0,
                           flags |-> {}, rx_closed |-> FALSE] : st \in Requested}]
  /\ kern = [st |-> [c \in Conns |-> "requested"], tail |-> 0, moves |-> 0]
  /\ fp = [c \in Conns |-> [active |-> FALSE, core |-> 0, rxFree |-> RxbLen, rxSent |-> 0,
                            txUnacked |-> 0, eosSent |-> FALSE]]
  /\ fpq = [rxTail |-> [q \in Queues |-> 0], txHead |-> [q \in Queues |-> 0]]
  /\ evs = <<>>
  /\ rxFrom = [c \in Conns |-> 0]
  /\ aborted = FALSE
  /\ parity = 0
  /\ txTotal = [c \in Conns |-> 0]

Poll == \E n \in Nums : ContextPoll(n)

App(c) ==
  \/ \E n \in 1 .. RxbLen : AppRxDone(c, n)
  \/ \E n \in 1 .. TxbLen : AppTxSend(c, n)
  \/ AppTxClose(c)
  \/ AppConnClose(c)

Kernel ==
  \/ \E c \in Conns, q \in Queues : KernelFlowSetup(c, q)
  \/ \E c \in Conns : KernelOpenReply(c) \/ KernelOpenFail(c)
  \/ \E c \in Conns : KernelCloseReply(c)
  \/ \E c \in Conns, q \in Queues : KernelMove(c, q)

FastPath ==
  \/ \E c \in Conns, rx \in 0 .. RxbLen, tx \in 0 .. TxbLen, eos \in BOOLEAN :
       FpUpdate(c, rx, tx, eos)
  \/ \E q \in Queues : FpConsume(q)

Next == Poll \/ (\E c \in Conns : App(c)) \/ Kernel \/ FastPath

(* The application polls again and again (the loops of lowlevel.c and of   *)
(* the sockets layer); each fast-path core keeps draining its tx ring; the *)
(* kernel reports every flow it has set up.  A poll flips parity, so it is *)
(* always enabled and never a stutter: weak fairness of it is that it is   *)
(* taken infinitely often.                                                 *)
Fairness ==
  /\ []<><<Poll>>_vars
  /\ \A q \in Queues : WF_vars(FpConsume(q))
  /\ \A c \in Conns : WF_vars(KernelOpenReply(c))

Spec == Init /\ [][Next]_vars /\ Fairness

-----------------------------------------------------------------------------
(* Properties.                                                             *)

Entries == [type : {"INVALID", "CONNUPDATE"} \cup KernelTypes, c : Conns \cup {Listener},
            status : {0, 1}, core : Queues, rx : 0 .. RxbLen, tx : 0 .. TxbLen,
            eos : BOOLEAN]

TypeOK ==
  /\ kout \in [0 .. KoutLen - 1 -> Entries]
  /\ arx \in [Queues -> [0 .. RxqLen - 1 -> Entries]]
  /\ atx \in [Queues -> [0 .. TxqLen - 1 -> Entries]]
  /\ ctx.kout_head \in 0 .. KoutLen - 1 /\ ctx.next_queue \in Queues
  /\ ctx.rxq_head \in [Queues -> 0 .. RxqLen - 1]
  /\ ctx.txq_tail \in [Queues -> 0 .. TxqLen - 1]
  /\ ctx.txq_avail \in [Queues -> 0 .. TxqLen]
  /\ \A c \in Conns :
       /\ conn[c].status \in ConnStates /\ conn[c].fn_core \in Queues
       /\ conn[c].rxb_head \in 0 .. RxbLen /\ conn[c].rxb_used \in 0 .. RxbLen
       /\ conn[c].txb_sent \in 0 .. TxbLen
       /\ conn[c].flags \subseteq {"TXEOS", "TXEOS_ALLOC", "TXEOS_ACK"}
  /\ aborted \in BOOLEAN

\* The rx or tx bytes of entries for c still in a ring.
InRing(ring, c, f(_)) ==
  MapThenSumSet(LAMBDA i : IF ring[i].type = "CONNUPDATE" /\ ring[i].c = c
                           THEN f(ring[i]) ELSE 0, DOMAIN ring)
InRings(rings, c, f(_)) == MapThenSumSet(LAMBDA q : InRing(rings[q], c, f), Queues)

(* Receive and transmit credit is never lost or made up, across the rings, *)
(* the poll and the connection calls: the receive buffer's space is the    *)
(* fast path's credit, plus bytes in arx updates, plus rxb_used, plus the  *)
(* pending rxb_bump, plus bumps in the atx rings; txb_sent is the bytes    *)
(* the fast path holds unacknowledged, plus acks in arx updates, plus the  *)
(* pending txb_bump, plus bumps in the atx rings.  An update handled twice *)
(* or skipped, a bump written twice or not reset, breaks it.               *)
CreditsConserved ==
  \A c \in Conns : conn[c].status \in Requested \cup {"OPEN"} =>
    /\ fp[c].rxFree + InRings(arx, c, LAMBDA e : e.rx) + conn[c].rxb_used
         + conn[c].rxb_bump + InRings(atx, c, LAMBDA e : e.rx) = RxbLen
    /\ fp[c].txUnacked + InRings(arx, c, LAMBDA e : e.tx) + conn[c].txb_bump
         + InRings(atx, c, LAMBDA e : e.tx) = conn[c].txb_sent

(* txq_probe never counts as available a tx-ring slot the fast path has   *)
(* not emptied: the txq_avail slots from txq_tail are all empty, so        *)
(* conns_bump never overwrites an unread update.                           *)
TxRingNoOverwrite ==
  \A q \in Queues : \A k \in 0 .. ctx.txq_avail[q] - 1 :
    atx[q][(ctx.txq_tail[q] + k) % TxqLen].type = "INVALID"

(* The CONN_RECEIVED events of a poll describe the next bytes of the       *)
(* stream in order: each starts at the stream position modulo rx_len      *)
(* where the previous one ended, none runs past the end of the buffer,     *)
(* and no more is announced than the fast path delivered.                  *)
RECURSIVE Tiles(_, _, _)
Tiles(es, c, pos) ==
  \/ es = <<>>
  \/ /\ Head(es).type = "CONN_RECEIVED" /\ Head(es).c = c
     /\ Head(es).off % RxbLen = pos % RxbLen /\ Head(es).off + Head(es).len <= RxbLen
     /\ Tiles(Tail(es), c, pos + Head(es).len)
  \/ /\ ~(Head(es).type = "CONN_RECEIVED" /\ Head(es).c = c)
     /\ Tiles(Tail(es), c, pos)

RxEventsMatchStream ==
  \A c \in Conns : Tiles(evs, c, rxFrom[c]) /\ Announced(c) <= fp[c].rxSent

(* No assert() or abort() of the poll or of the calls it makes is reached: *)
(* conns_bump only meets open connections, a deferred end of stream can    *)
(* always be pushed, no data is acknowledged after the end of stream, and  *)
(* nothing is acknowledged before the open is confirmed.                   *)
NoAbort == ~aborted

(* The kernel's report that a connection is closed closes it: once the    *)
(* poll has taken the CONN_CLOSE entry off the kout ring, conn->status is  *)
(* CLOSED, as event_kappin_st_conn_closed sets it.                         *)
ConnClosedWhenKernelClosed ==
  \A c \in Conns :
    (kern.st[c] = "closed" /\ \A i \in DOMAIN kout : kout[i].type = "INVALID")
      => conn[c].status = "CLOSED"

(* Every connection update the fast path writes is eventually handled:     *)
(* an update whose events do not fit in the caller's array is retried by  *)
(* later polls, and never stays in the ring for ever.                      *)
UpdatesEventuallyHandled ==
  \A q \in Queues : \A i \in 0 .. RxqLen - 1 :
    arx[q][i].type = "CONNUPDATE" ~> arx[q][i].type = "INVALID"

(* A connection put on the bump_pending list is eventually taken off it:  *)
(* its credit reaches the fast path even when the tx ring is full at first *)
(* (txq_probe must reclaim the slots the fast path empties).               *)
BumpsEventuallySent == \A c \in Conns : InBump(ctx.bump, c) ~> ~InBump(ctx.bump, c)

-----------------------------------------------------------------------------
(* Refinement: the events flextcp_context_poll returns obey ConnEvents.   *)
(* A connection is requested until its open is consumed, closed once its  *)
(* status is CLOSED; it is closing from flextcp_connection_close on (a    *)
(* CLOSED that is not the answer to a failed open); the end of the peer's  *)
(* stream counts once it has been announced, i.e. once the connection is  *)
(* no longer waiting for the kernel's confirmation.                        *)

EventStream == INSTANCE ConnEvents WITH
  phase   <- [c \in Conns |-> CASE conn[c].status \in Requested -> "requested"
                                [] conn[c].status = "CLOSED"    -> "closed"
                                [] OTHER                        -> "open"],
  rxEos   <- [c \in Conns |-> conn[c].rx_closed /\ conn[c].status \notin Requested
                                                /\ kern.st[c] # "failed"],
  txEos   <- [c \in Conns |-> "TXEOS" \in conn[c].flags],
  txAck   <- [c \in Conns |-> "TXEOS_ACK" \in conn[c].flags],
  closing <- [c \in Conns |-> \/ conn[c].status = "CLOSE_REQUESTED"
                              \/ conn[c].status = "CLOSED" /\ kern.st[c] # "failed"],
  evs     <- evs

(* Every behaviour of the context, its fast path and kernel included, is  *)
(* one of ConnEvents: the open comes first, no data after the end of the   *)
(* peer's stream or after flextcp_connection_close, RXCLOSED and TXCLOSED  *)
(* once each, TXCLOSED only after tx_close, in the order the injection of  *)
(* event_kappin_conn_opened and the event generation of                    *)
(* event_arx_connupdate put them in.  With two fast-path cores and a move *)
(* it fails: fastpath_poll_vec gathers one entry per queue from next_queue *)
(* on, so an end of stream on the new core can be handled before a data   *)
(* update still in the old core's ring.                                    *)
ConnEventsRefined == EventStream!Spec

====

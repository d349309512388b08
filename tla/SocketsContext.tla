---------------------------- MODULE SocketsContext ----------------------------
(***************************************************************************)
(* The sockets emulation of TAS on one application thread: the socket     *)
(* calls of src/lib/sockets/control.c (socket, bind, connect, listen,      *)
(* accept4, shutdown, close) and the event handlers of                     *)
(* src/lib/sockets/context.c that flextcp_sockctx_poll dispatches.  The    *)
(* libtas connections under the sockets are the abstract ConnEvents: a     *)
(* poll delivers one event the libtas promise allows, so the sockets layer *)
(* is composed with what LibtasContext is checked to implement.            *)
(*                                                                         *)
(* A socket struct is a member of Socks; an fd is held by the application  *)
(* ("app"), by a listener's backlog ("held", allocated by enqueue_accept   *)
(* and not yet returned by accept) or by nobody.  The epoll state of a     *)
(* socket is the set of its flextcp_epoll_set bits.                        *)
(***************************************************************************)
EXTENDS Integers, Sequences, FiniteSets

CONSTANTS
  Socks,        \* socket structs (model values)
  None,         \* no socket (a NULL listener pointer)
  MaxFds,       \* the fds flextcp_fd_salloc can hand out
  ListenArgs,   \* backlog arguments the application passes to listen
  MaxCalls      \* bound on the socket calls of a behaviour

ASSUME None \notin Socks /\ MaxFds \in Nat \ {0}

VARIABLES
  sk,       \* per struct: type, flags and the connection or listener fields
  fd,       \* per struct: "none", "held" or "app"
  bl,       \* per listener struct: backlog (live window), length, freed
  lst,      \* per listener struct: libtas listener "none", "requested", "open", "failed"
  kind,     \* per struct: "open" (connect) or "accept" (enqueue_accept)
  phase, rxEos, txEos, txAck, closing,   \* libtas connections (ConnEvents)
  pc,       \* the application thread: [op, s] of the call it is blocked in
  finished, \* per struct: flextcp_connection_close calls
  asserts,  \* an assert of the sockets layer has failed
  uaf,      \* a freed backlog array has been used
  calls     \* socket calls made

ltVars == <<phase, rxEos, txEos, txAck, closing>>
vars == <<sk, fd, bl, lst, kind, ltVars, pc, finished, asserts, uaf, calls>>

LT == INSTANCE ConnEvents WITH Conns <- Socks, evs <- <<>>

SockTypes == {"FREE", "SOCKET", "CONNECTION", "LISTENER"}
SocStatus == {"SOC_CONNECTING", "SOC_CONNECTED", "SOC_FAILED", "SOC_CLOSED"}
SolStatus == {"SOL_OPENING", "SOL_OPEN", "SOL_FAILED"}

\* A struct as calloc leaves it (flextcp_fd_salloc).
FreshSock == [type |-> "FREE", nonblock |-> FALSE, bound |-> FALSE, status |-> "NONE",
              st |-> {}, listener |-> None, accepted |-> 0, rx |-> FALSE, ep |-> {}]

NoBacklog == [q |-> <<>>, len |-> 0, freed |-> FALSE]

\* The fds in use; flextcp_fd_salloc fails when all are.
FdsUsed(f) == Cardinality({s \in Socks : f[s] # "none"})

\* A struct with no fd that is free to be allocated.
FreeSocks(k, f) == {s \in Socks : k[s].type = "FREE" /\ f[s] = "none"}

\* The libtas connection of struct s is fresh: asked to open or accept.
LtFresh(r, s, how) ==
  [r EXCEPT !.kind[s] = how, !.phase[s] = "requested", !.rxEos[s] = FALSE,
            !.txEos[s] = FALSE, !.txAck[s] = FALSE, !.closing[s] = FALSE]

(* The state the calls and handlers work on, passed from step to step of  *)
(* one action, and its commit.                                             *)
State == [sk |-> sk, fd |-> fd, bl |-> bl, lst |-> lst, kind |-> kind,
          phase |-> phase, rxEos |-> rxEos, txEos |-> txEos, txAck |-> txAck,
          closing |-> closing, finished |-> finished, asserts |-> asserts, uaf |-> uaf]

Commit(r) ==
  /\ sk' = r.sk /\ fd' = r.fd /\ bl' = r.bl /\ lst' = r.lst /\ kind' = r.kind
  /\ phase' = r.phase /\ rxEos' = r.rxEos /\ txEos' = r.txEos /\ txAck' = r.txAck
  /\ closing' = r.closing /\ finished' = r.finished /\ asserts' = r.asserts
  /\ uaf' = r.uaf

\* assert(cond): recorded; the build without assertions goes on.
Assert(r, cond) == [r EXCEPT !.asserts = @ \/ ~cond]

\* flextcp_epoll_set / flextcp_epoll_clear.
EpollSet(r, s, bits) == [r EXCEPT !.sk[s].ep = @ \cup bits]
EpollClear(r, s, bits) == [r EXCEPT !.sk[s].ep = @ \ bits]

\* flextcp_sockclose_finish: flextcp_connection_close on the libtas connection.
SockcloseFinish(r, s) == [r EXCEPT !.finished[s] = @ + 1, !.closing[s] = TRUE]

\* flextcp_connection_tx_close: the end of the stream is queued (TXEOS).
TxClose(r, s) == [r EXCEPT !.txEos[s] = TRUE]

-----------------------------------------------------------------------------
(* The handlers of context.c.                                              *)

\* ev_listen_open.
EvListenOpen(r, l, status) ==
  LET r1 == Assert(r, r.sk[l].type = "LISTENER" /\ r.sk[l].status = "SOL_OPENING")
  IN  [r1 EXCEPT !.sk[l].status = IF status = 0 THEN "SOL_OPEN" ELSE "SOL_FAILED"]

\* Mutant: a failed open marks the connection with the listener's SOL_FAILED.
OpenedBug(r, s, status) ==
  IF status = 0 THEN EpollSet([r EXCEPT !.sk[s].status = "SOC_CONNECTED"], s, {"OUT"})
  ELSE EpollSet([r EXCEPT !.sk[s].status = "SOL_FAILED"], s, {"ERR"})

\* Connected (EPOLLOUT) or failed (EPOLLERR), as ev_listen_accept and ev_conn_open do.
Opened(r, s, status) ==
  IF status = 0 THEN EpollSet([r EXCEPT !.sk[s].status = "SOC_CONNECTED"], s, {"OUT"})
  ELSE EpollSet([r EXCEPT !.sk[s].status = "SOC_FAILED"], s, {"ERR"})

(* ev_listen_accept: a socket connect() set up (accepted = 1) is left     *)
(* alone; otherwise the listener becomes readable and the connection is   *)
(* connected or failed.                                                   *)
EvListenAccept(r, s, status) ==
  LET sl == r.sk[s].listener
      r1 == Assert(r, r.sk[s].type = "CONNECTION" /\ sl # None)
  IN  IF r.sk[s].accepted = 1 THEN r1
      ELSE Opened(EpollSet(Assert(r1, r.sk[s].status = "SOC_CONNECTING"), sl, {"IN"}),
                  s, status)

\* ev_conn_open.
EvConnOpen(r, s, status) ==
  Opened(Assert(r, r.sk[s].type = "CONNECTION" /\ r.sk[s].status = "SOC_CONNECTING"),
         s, status)

(* ev_conn_received: data on a closed socket is ignored; otherwise it is  *)
(* recorded in rx_buf_1/rx_buf_2 (rx: some bytes are ready) and the       *)
(* socket is readable.                                                    *)
EvConnReceived(r, s) ==
  IF r.sk[s].status = "SOC_CLOSED" THEN r
  ELSE EpollSet([Assert(r, r.sk[s].type = "CONNECTION" /\ r.sk[s].status = "SOC_CONNECTED")
                 EXCEPT !.sk[s].rx = TRUE], s, {"IN"})

\* ev_conn_sendbuf.
EvConnSendbuf(r, s) ==
  EpollSet(Assert(r, r.sk[s].type = "CONNECTION" /\ r.sk[s].status = "SOC_CONNECTED"),
           s, {"OUT"})

\* Mutant: the SOC_CLOSED test is dropped.
CloseDoneBug(r, s) ==
  IF {"RXCLOSED", "TXCLOSED_ACK"} \subseteq r.sk[s].st THEN SockcloseFinish(r, s) ELSE r

\* The socket is closed by the application and both directions are done.
CloseDone(r, s) ==
  IF r.sk[s].status = "SOC_CLOSED" /\ {"RXCLOSED", "TXCLOSED_ACK"} \subseteq r.sk[s].st
  THEN SockcloseFinish(r, s) ELSE r

\* ev_conn_rxclosed.
EvConnRxclosed(r, s) ==
  LET r1 == Assert(r, r.sk[s].type = "CONNECTION"
                      /\ r.sk[s].status \in {"SOC_CONNECTED", "SOC_CLOSED"})
  IN  CloseDone(EpollSet([r1 EXCEPT !.sk[s].st = @ \cup {"RXCLOSED"}], s, {"IN", "RDHUP"}), s)

\* ev_conn_txclosed.
EvConnTxclosed(r, s) ==
  LET r1 == Assert(r, r.sk[s].type = "CONNECTION"
                      /\ r.sk[s].status \in {"SOC_CONNECTED", "SOC_CLOSED"})
  IN  CloseDone([r1 EXCEPT !.sk[s].st = @ \cup {"TXCLOSED_ACK"}], s)

\* ev_conn_closed: the struct is freed.
EvConnClosed(r, s) ==
  LET r1 == Assert(r, r.sk[s].type = "CONNECTION" /\ r.sk[s].status = "SOC_CLOSED")
  IN  [r1 EXCEPT !.sk[s] = FreshSock, !.kind[s] = "none", !.finished[s] = 0]

\* The switch of flextcp_sockctx_poll.
Dispatch(r, e) ==
  CASE e.type = "LISTEN_OPEN"   -> EvListenOpen(r, e.c, e.status)
    [] e.type = "LISTEN_ACCEPT" -> EvListenAccept(r, e.c, e.status)
    [] e.type = "CONN_OPEN"     -> EvConnOpen(r, e.c, e.status)
    [] e.type = "CONN_RECEIVED" -> EvConnReceived(r, e.c)
    [] e.type = "CONN_SENDBUF"  -> EvConnSendbuf(r, e.c)
    [] e.type = "CONN_RXCLOSED" -> EvConnRxclosed(r, e.c)
    [] e.type = "CONN_TXCLOSED" -> EvConnTxclosed(r, e.c)
    [] e.type = "CONN_CLOSED"   -> EvConnClosed(r, e.c)

-----------------------------------------------------------------------------
(* What libtas may deliver next: the listener's open answer, and for each *)
(* libtas connection the events ConnEvents allows it (the open answer of  *)
(* the kind it was asked for).  A poll takes one event.                    *)

LtState(r, s) == [phase |-> r.phase[s], rxEos |-> r.rxEos[s], txEos |-> r.txEos[s],
                  txAck |-> r.txAck[s], closing |-> r.closing[s]]

OpenType(r, s) == IF r.kind[s] = "open" THEN "CONN_OPEN" ELSE "LISTEN_ACCEPT"

Pending(r) ==
  {[type |-> "LISTEN_OPEN", c |-> l, status |-> st] :
     l \in {l \in Socks : r.lst[l] = "requested"}, st \in {0, 1}}
  \cup {e \in [type : LT!ConnEventTypes, c : {s \in Socks : r.kind[s] # "none"},
               status : {0, 1}] :
          /\ e.type \in {"CONN_OPEN", "LISTEN_ACCEPT"} => e.type = OpenType(r, e.c)
          /\ e.type \notin {"CONN_OPEN", "LISTEN_ACCEPT"} => e.status = 0
          /\ LT!Step(LtState(r, e.c), e.type, e.status).phase # "illegal"}

\* libtas's state after it delivered e.
Delivered(r, e) ==
  IF e.type = "LISTEN_OPEN"
  THEN [r EXCEPT !.lst[e.c] = IF e.status = 0 THEN "open" ELSE "failed"]
  ELSE LET k == LT!Step(LtState(r, e.c), e.type, e.status)
       IN  [r EXCEPT !.phase[e.c] = k.phase, !.rxEos[e.c] = k.rxEos,
                     !.txAck[e.c] = k.txAck]

\* flextcp_sockctx_poll returning e: its handler runs.
SockctxPoll(r, e) == Dispatch(Delivered(r, e), e)

-----------------------------------------------------------------------------
(* enqueue_accept, and the accept4 loop.                                   *)

\* backlog = max(backlog, 8).
BacklogLen(arg) == IF arg < 8 THEN 8 ELSE arg

(* Fill the backlog: while it is not full and flextcp_fd_salloc finds an  *)
(* fd, a connecting socket of the listener is appended and an accept is   *)
(* asked of libtas.  A write into a freed backlog array is a use after    *)
(* free.                                                                   *)
RECURSIVE EnqueueAccept(_, _)
EnqueueAccept(r, l) ==
  IF Len(r.bl[l].q) = r.bl[l].len \/ FreeSocks(r.sk, r.fd) = {} \/ FdsUsed(r.fd) = MaxFds
  THEN r
  ELSE LET ns == CHOOSE n \in FreeSocks(r.sk, r.fd) : TRUE
       IN  EnqueueAccept(
             LtFresh([r EXCEPT !.sk[ns] = [FreshSock EXCEPT !.type = "CONNECTION",
                                             !.status = "SOC_CONNECTING", !.listener = l],
                               !.fd[ns] = "held",
                               !.bl[l].q = Append(@, ns),
                               !.uaf = @ \/ r.bl[l].freed], ns, "accept"), l)

\* Mutant: EPOLLIN is cleared whatever the new head is.
AcceptDoneBug(r, l) ==
  LET ns == Head(r.bl[l].q)
  IN  EpollClear(EnqueueAccept([Assert(r, r.sk[ns].status = "SOC_CONNECTED")
                                EXCEPT !.bl[l].q = Tail(@), !.fd[ns] = "app"], l), l, {"IN"})

(* The connection at the head of the backlog is ready: it leaves the      *)
(* backlog and its fd goes to the application; the backlog is refilled;   *)
(* the listener stops being readable when no connection, or a connecting  *)
(* one, is at the head now.                                                *)
AcceptDone(r, l) ==
  LET ns == Head(r.bl[l].q)
      r1 == EnqueueAccept([Assert(r, r.sk[ns].status = "SOC_CONNECTED")
                           EXCEPT !.bl[l].q = Tail(@), !.fd[ns] = "app"], l)
      q  == r1.bl[l].q
  IN  IF q = <<>> \/ r1.sk[Head(q)].status = "SOC_CONNECTING"
      THEN EpollClear(r1, l, {"IN"}) ELSE r1

(* One pass of the loop of tas_accept4: refill an empty backlog (ENOBUFS  *)
(* if it stays empty); take the head if it is no longer connecting;       *)
(* otherwise return EAGAIN on a non-blocking listener or block.           *)
AcceptLoop(r, l) ==
  LET r1 == IF r.bl[l].q = <<>> THEN EnqueueAccept(r, l) ELSE r
      r2 == [r1 EXCEPT !.uaf = @ \/ r1.bl[l].freed]
  IN  CASE r1.bl[l].q = <<>> -> [r |-> r1, blocked |-> FALSE]
        [] r2.sk[Head(r2.bl[l].q)].status # "SOC_CONNECTING" ->
             [r |-> AcceptDone(r2, l), blocked |-> FALSE]
        [] OTHER -> [r |-> r2, blocked |-> ~r2.sk[l].nonblock]

-----------------------------------------------------------------------------
(* The blocking calls: after each poll the call that waits re-checks.     *)

Idle == [op |-> "idle", s |-> None]

(* tas_listen after the wait: a failed listener frees the backlog array   *)
(* (err_bl); an open one fills the backlog, and frees the array if it     *)
(* stays empty (err_close).  The socket stays a LISTENER either way.       *)
ListenDone(r, l) ==
  IF r.sk[l].status = "SOL_FAILED" THEN [r EXCEPT !.bl[l].freed = TRUE]
  ELSE LET r1 == EnqueueAccept(r, l)
       IN  IF r1.bl[l].q = <<>> THEN [r1 EXCEPT !.bl[l].freed = TRUE] ELSE r1

\* Mutant: connect waits while the socket is not connected.
ResumeBug(r) ==
  LET s == pc.s
  IN  CASE pc.op = "connect" ->
             [r |-> r, pc |-> IF r.sk[s].status # "SOC_CONNECTED" THEN pc ELSE Idle]
        [] pc.op = "listen" ->
             IF r.sk[s].status = "SOL_OPENING" THEN [r |-> r, pc |-> pc]
             ELSE [r |-> ListenDone(r, s), pc |-> Idle]
        [] pc.op = "accept" ->
             LET a == AcceptLoop(r, s)
             IN  [r |-> a.r, pc |-> IF a.blocked THEN pc ELSE Idle]
        [] OTHER -> [r |-> r, pc |-> pc]

\* The state and the thread after the blocked call re-checked its condition.
Resume(r) ==
  LET s == pc.s
  IN  CASE pc.op = "connect" ->
             [r |-> r, pc |-> IF r.sk[s].status = "SOC_CONNECTING" THEN pc ELSE Idle]
        [] pc.op = "listen" ->
             IF r.sk[s].status = "SOL_OPENING" THEN [r |-> r, pc |-> pc]
             ELSE [r |-> ListenDone(r, s), pc |-> Idle]
        [] pc.op = "accept" ->
             LET a == AcceptLoop(r, s)
             IN  [r |-> a.r, pc |-> IF a.blocked THEN pc ELSE Idle]
        [] OTHER -> [r |-> r, pc |-> pc]

\* flextcp_sockctx_poll returns e, then the waiting call (if any) goes on.
PollEvent(e) ==
  \E res \in {Resume(SockctxPoll(State, e))} :
    Commit(res.r) /\ pc' = res.pc /\ UNCHANGED calls

\* The libtas answer to an open request (listen, connect, accept).
IsOpenAnswer(e) == e.type \in {"LISTEN_OPEN", "CONN_OPEN", "LISTEN_ACCEPT"}

Poll == \E e \in Pending(State) : PollEvent(e)

-----------------------------------------------------------------------------
(* The socket calls of control.c, made by the thread when it is not       *)
(* blocked.  Calls that fail with no effect (EBADF, EINVAL, ...) are       *)
(* stuttering steps and left out.  The conn.c calls are taken to succeed  *)
(* at once; their failure paths (flextcp_listen_open in tas_listen, which  *)
(* frees the backlog twice, and flextcp_listen_accept in enqueue_accept)   *)
(* are not modelled.                                                       *)

Call(r, p) == \E v \in {r} : Commit(v) /\ pc' = p /\ calls' = calls + 1

AppFd(s) == fd[s] = "app"

\* tas_socket: flextcp_fd_salloc finds a struct and an fd.
TasSocket(nb) ==
  \E s \in FreeSocks(sk, fd) :
    /\ FdsUsed(fd) < MaxFds
    /\ Call([State EXCEPT !.sk[s] = [FreshSock EXCEPT !.type = "SOCKET", !.nonblock = nb],
                          !.fd[s] = "app"], Idle)

\* tas_bind.
TasBind(s) == AppFd(s) /\ Call([State EXCEPT !.sk[s].bound = TRUE], Idle)

(* tas_connect: not on a listener nor a connected or connecting socket;   *)
(* the libtas connection is opened and a blocking socket waits.            *)
TasConnect(s) ==
  /\ AppFd(s)
  /\ sk[s].type \in {"SOCKET", "CONNECTION"}
  /\ sk[s].status \notin {"SOC_CONNECTED", "SOC_CONNECTING"}
  /\ Call(LtFresh([State EXCEPT !.sk[s].type = "CONNECTION", !.sk[s].status = "SOC_CONNECTING",
                                !.sk[s].listener = None, !.sk[s].rx = FALSE,
                                !.sk[s].accepted = 1], s, "open"),
          IF sk[s].nonblock THEN Idle ELSE [op |-> "connect", s |-> s])

\* tas_listen on a bound socket: the listener is asked of libtas and the call waits.
TasListen(s, arg) ==
  /\ AppFd(s) /\ sk[s].type = "SOCKET" /\ sk[s].bound
  /\ Call([State EXCEPT !.sk[s].type = "LISTENER", !.sk[s].status = "SOL_OPENING",
                        !.bl[s] = [q |-> <<>>, len |-> BacklogLen(arg), freed |-> FALSE],
                        !.lst[s] = "requested"],
          [op |-> "listen", s |-> s])

\* tas_accept4 on a listener.
TasAccept4(l) ==
  /\ AppFd(l) /\ sk[l].type = "LISTENER"
  /\ LET a == AcceptLoop(State, l)
     IN  Call(a.r, IF a.blocked THEN [op |-> "accept", s |-> l] ELSE Idle)

\* tas_shutdown(SHUT_WR) on a connected socket not yet closed for sending.
TasShutdown(s) ==
  /\ AppFd(s) /\ sk[s].type = "CONNECTION" /\ sk[s].status = "SOC_CONNECTED"
  /\ "TXCLOSED" \notin sk[s].st
  /\ Call([TxClose(State, s) EXCEPT !.sk[s].st = @ \cup {"TXCLOSED"}], Idle)

(* conn_close: the socket is closed; the libtas connection is closed now  *)
(* if both directions are done, else the sending side is closed.           *)
ConnClose(r, s) ==
  LET r1 == [r EXCEPT !.sk[s].status = "SOC_CLOSED"]
  IN  CASE {"RXCLOSED", "TXCLOSED_ACK"} \subseteq r.sk[s].st -> SockcloseFinish(r1, s)
        [] "TXCLOSED" \notin r.sk[s].st ->
             [TxClose(r1, s) EXCEPT !.sk[s].st = @ \cup {"TXCLOSED"}]
        [] OTHER -> r1

(* tas_close and tas_sock_close: the fd is released; a connection is      *)
(* closed, an unused socket freed, a listener leaked.                      *)
TasClose(s) ==
  LET r == [State EXCEPT !.fd[s] = "none"]
  IN  /\ AppFd(s)
      /\ Call(CASE sk[s].type = "CONNECTION" -> ConnClose(r, s)
                [] sk[s].type = "SOCKET" -> [r EXCEPT !.sk[s] = FreshSock]
                [] OTHER -> r, Idle)

App ==
  /\ pc = Idle /\ calls < MaxCalls
  /\ \/ \E nb \in BOOLEAN : TasSocket(nb)
     \/ \E s \in Socks : TasBind(s) \/ TasConnect(s) \/ TasAccept4(s)
                         \/ TasShutdown(s) \/ TasClose(s)
     \/ \E s \in Socks, arg \in ListenArgs : TasListen(s, arg)

\* The thread not blocked may stop making calls (and stop polling).
AppIdle == pc = Idle /\ UNCHANGED vars

Init ==
  /\ sk = [s \in Socks |-> FreshSock] /\ fd = [s \in Socks |-> "none"]
  /\ bl = [s \in Socks |-> NoBacklog] /\ lst = [s \in Socks |-> "none"]
  /\ kind = [s \in Socks |-> "none"] /\ LT!Init
  /\ pc = Idle /\ finished = [s \in Socks |-> 0]
  /\ asserts = FALSE /\ uaf = FALSE /\ calls = 0

Next == Poll \/ App \/ AppIdle

\* The open answer libtas owes struct s, if any.
OpenAnswers(s) ==
  LET t == IF lst[s] = "requested" THEN "LISTEN_OPEN" ELSE OpenType(State, s)
  IN  IF lst[s] = "requested" \/ (kind[s] # "none" /\ phase[s] = "requested")
      THEN {[type |-> t, c |-> s, status |-> st] : st \in {0, 1}} ELSE {}

\* libtas delivers an open answer it owes s.
PollOpen(s) == \E e \in OpenAnswers(s) : PollEvent(e)

(* libtas eventually answers every open request it has pending for a     *)
(* struct (the kernel answers listen, connect and accept requests).        *)
Fairness == \A s \in Socks : WF_vars(PollOpen(s))

Spec == Init /\ [][Next]_vars /\ Fairness

-----------------------------------------------------------------------------
(* Properties.                                                             *)

TypeOK ==
  /\ \A s \in Socks : /\ sk[s].type \in SockTypes /\ sk[s].listener \in Socks \cup {None}
                      /\ sk[s].status \in CASE sk[s].type = "CONNECTION" -> SocStatus
                                             [] sk[s].type = "LISTENER" -> SolStatus
                                             [] OTHER -> {"NONE"}
  /\ fd \in [Socks -> {"none", "held", "app"}]
  /\ lst \in [Socks -> {"none", "requested", "open", "failed"}]
  /\ kind \in [Socks -> {"none", "open", "accept"}]
  /\ pc.op \in {"idle", "connect", "listen", "accept"}
  /\ finished \in [Socks -> Nat] /\ calls \in 0..MaxCalls

(* flextcp_connection_close is called at most once per connection, by     *)
(* conn_close or by the rxclosed/txclosed handlers, and only for a socket *)
(* the application has closed (SOC_CLOSED, fd released) whose receive and *)
(* send sides are both done: the struct is freed on the CONN_CLOSED this  *)
(* call brings, so a second call, or one on a live socket, frees a struct *)
(* the application still uses.                                             *)
CloseFinishesOnce ==
  \A s \in Socks :
    /\ finished[s] <= 1
    /\ finished[s] = 1 => /\ sk[s].status = "SOC_CLOSED" /\ fd[s] = "none"
                          /\ {"RXCLOSED", "TXCLOSED_ACK"} \subseteq sk[s].st

(* A listener the application holds whose next backlog entry has its      *)
(* answer (ev_listen_accept) is readable: tas_accept4 clears EPOLLIN only  *)
(* when the new head is still connecting, and ev_listen_accept sets it     *)
(* again, so an epoll waiter is never left asleep with a connection ready. *)
AcceptWakeup ==
  \A l \in Socks :
    (/\ AppFd(l) /\ sk[l].type = "LISTENER" /\ ~bl[l].freed /\ bl[l].q # <<>>
     /\ sk[Head(bl[l].q)].status # "SOC_CONNECTING") => "IN" \in sk[l].ep

(* A blocking connect, listen or accept returns, given that libtas         *)
(* answers every open request: the wait loops re-check after every poll.  *)
BlockingCallsReturn == pc # Idle ~> pc = Idle

(* After tas_listen returned an error the backlog array it freed is never *)
(* used: the socket is still a LISTENER, so tas_accept4 and                *)
(* enqueue_accept would read and write the freed array.                    *)
NoBacklogUseAfterFree == ~uaf

=============================================================================

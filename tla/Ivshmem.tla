------------------------------- MODULE Ivshmem -------------------------------
(***************************************************************************)
(* The host side of the TAS VM proxy, src/proxy/host/ivshmem.c.  qemu      *)
(* processes connect to a unix socket and get a VM id, the VM's shared     *)
(* memory and its eventfds (uxsocket_accept); the guest proxy and the host *)
(* then talk over a pair of rings in that memory (the channel).  One host  *)
(* thread calls ivshmem_poll again and again: it accepts qemus, reads one  *)
(* request of every VM (chanel_poll) and forwards the signals of the TAS   *)
(* contexts it created for the guests as VPOKE messages (ctxs_poll).       *)
(*                                                                         *)
(* The guests, the qemus and TAS (which signals a context's evfd) are the  *)
(* environment.  A channel direction is the sequence of every message      *)
(* written to it and the number the reader has taken; the ring holds the   *)
(* difference, at most ChanCap messages.                                   *)
(***************************************************************************)
EXTENDS Integers, Sequences, FiniteSets, SequencesExt

CONSTANTS
  MaxVms,      \* MAX_VMS: the slots of vms[]
  MaxQemus,    \* bound on the qemu processes that connect
  ChanCap,     \* messages a channel ring holds
  CtxReqs,     \* ctxreq ids the guests use
  Apps,        \* app ids a guest names in a context request
  MaxMsgs,     \* bound on the requests a guest writes
  MaxSignals   \* bound on the context signals TAS raises

ASSUME MaxVms \in Nat \ {0} /\ ChanCap \in Nat \ {0}

VARIABLES
  nextVm,    \* next_vm_id
  conn,      \* per slot of vms[]: a channel is recorded (vms[i].chan # NULL)
  pending,   \* qemu connections waiting on uxfd
  qemus,     \* qemu processes started
  hup,       \* VMs whose qemu has exited (their cfd reports EPOLLHUP)
  oob,       \* a VM was recorded past the end of vms[]
  toHost,    \* per VM: every message the guest wrote to the host's rx ring
  rdHost,    \* per VM: messages the host has read
  toGuest,   \* per VM: every message the host wrote to the guest's ring
  rdGuest,   \* per VM: messages the guest has read
  nextApp,   \* next_app_id
  ctxs,      \* per VM: vm->ctxs, the contexts created for it
  signals,   \* context signals raised
  pc,        \* "run", "accept" (blocked in accept()) or "crashed"
  left       \* outcomes of the accepts of a blocked uxsocket_poll still to run

vars == <<nextVm, conn, pending, qemus, hup, oob, toHost, rdHost, toGuest, rdGuest,
          nextApp, ctxs, signals, pc, left>>

Vms == 0..(MaxVms - 1)

Msg(t, k, a) == [type |-> t, key |-> k, app |-> a]

\* The requests a guest sends (the cfd of a NEWAPP_REQ stands as its key 0).
Requests == {Msg("TASINFO_REQ", 0, 0), Msg("NEWAPP_REQ", 0, 0)}
            \cup {Msg("CONTEXT_REQ", q, a) : q \in CtxReqs, a \in Apps}

\* A vmcontext_req: its ids, whether its evfd is in ctx_epfd, whether it is signalled.
Vctx(q, a) == [ctxreq |-> q, app |-> a, ep |-> FALSE, sig |-> FALSE]

State == [nextVm |-> nextVm, conn |-> conn, pending |-> pending, hup |-> hup, oob |-> oob,
          rdHost |-> rdHost, toGuest |-> toGuest, nextApp |-> nextApp, ctxs |-> ctxs,
          pc |-> pc, left |-> left]

Commit(r) ==
  /\ nextVm' = r.nextVm /\ conn' = r.conn /\ pending' = r.pending /\ hup' = r.hup
  /\ oob' = r.oob /\ rdHost' = r.rdHost /\ toGuest' = r.toGuest /\ nextApp' = r.nextApp
  /\ ctxs' = r.ctxs /\ pc' = r.pc /\ left' = r.left

-----------------------------------------------------------------------------
(* The channel (channel.h, not in this repository).                        *)

\* The messages in v's ring toward the guest.
GuestQueued(r, v) == Len(r.toGuest[v]) - rdGuest[v]

\* channel_write: fails when the ring is full.
CanWrite(r, v) == GuestQueued(r, v) < ChanCap

ChannelWrite(r, v, m) == [r EXCEPT !.toGuest[v] = Append(@, m)]

-----------------------------------------------------------------------------
(* uxsocket_poll and uxsocket_accept.                                      *)

(* uxsocket_accept with the qemu at the head of the listen queue: the     *)
(* protocol version, the VM id, the shared memory and two eventfds are     *)
(* sent, the channel is set up and HELLO written.  ok is FALSE when one of *)
(* the sends, eventfds or epoll_ctls fails: the connection is closed and   *)
(* next_vm_id is kept.  A VM id equal to MAX_VMS passes the check and is  *)
(* recorded past the end of vms[].                                         *)
UxsocketAccept(r, ok) ==
  LET v  == r.nextVm
      r1 == [r EXCEPT !.pending = @ - 1]
  IN  CASE ~ok -> r1
        [] v \in Vms -> [ChannelWrite(r1, v, Msg("HELLO", 0, 0))
                         EXCEPT !.conn[v] = TRUE, !.nextVm = @ + 1]
        [] OTHER -> [r1 EXCEPT !.oob = TRUE, !.nextVm = @ + 1]

\* Mutant: an accept is tried with no qemu waiting.
RECURSIVE AcceptLoopBug(_, _)
AcceptLoopBug(r, oks) ==
  CASE oks = <<>> -> r
    [] r.nextVm > MaxVms -> AcceptLoopBug(r, Tail(oks))
    [] OTHER -> AcceptLoopBug(UxsocketAccept(r, Head(oks)), Tail(oks))

(* The accepts of one uxsocket_poll.  Every event of epfd has data.ptr    *)
(* NULL = EP_LISTEN (the cfds are added with a zeroed event), so each one *)
(* calls uxsocket_accept: it returns at once past MAX_VMS and otherwise    *)
(* blocks in accept() until a qemu connects.                               *)
RECURSIVE AcceptLoop(_, _)
AcceptLoop(r, oks) ==
  CASE oks = <<>> -> r
    [] r.nextVm > MaxVms -> AcceptLoop(r, Tail(oks))
    [] r.pending = 0 -> [r EXCEPT !.pc = "accept", !.left = oks]
    [] OTHER -> AcceptLoop(UxsocketAccept(r, Head(oks)), Tail(oks))

\* The events epoll_wait returns: uxfd while a qemu waits, and every hung-up cfd.
UxEvents(r) == (IF r.pending > 0 THEN 1 ELSE 0) + Cardinality(r.hup)

-----------------------------------------------------------------------------
(* chanel_poll and the message handlers.                                   *)

\* channel_handle_tasinforeq_msg.
HandleTasinfoReq(r, v) ==
  IF CanWrite(r, v) THEN ChannelWrite(r, v, Msg("TASINFO_RES", 0, 0)) ELSE r

\* Mutant: the evfd is added to ctx_epfd before the response is written.
HandleCtxReqBug(r, v, m, created) ==
  LET r1 == [r EXCEPT !.ctxs[v] = Append(@, [Vctx(m.key, m.app) EXCEPT !.ep = TRUE])]
  IN  CASE ~created -> r
        [] ~CanWrite(r1, v) -> r1
        [] OTHER -> ChannelWrite(r1, v, Msg("CONTEXT_RES", m.key, m.app))

(* channel_handle_ctx_req: the context is created (created is the result  *)
(* of flextcp_proxy_context_create), linked into vm->ctxs, answered, and  *)
(* only then its evfd is added to ctx_epfd.                                *)
HandleCtxReq(r, v, m, created) ==
  LET r1 == [r EXCEPT !.ctxs[v] = Append(@, Vctx(m.key, m.app))]
  IN  CASE ~created -> r
        [] ~CanWrite(r1, v) -> r1
        [] OTHER -> [ChannelWrite(r1, v, Msg("CONTEXT_RES", m.key, m.app))
                     EXCEPT !.ctxs[v][Len(r1.ctxs[v])].ep = TRUE]

\* channel_handle_newapp: the app id is taken whether or not the registration succeeds.
HandleNewapp(r, v, m, registered) ==
  LET r1 == [r EXCEPT !.nextApp[v] = @ + 1]
  IN  IF registered /\ CanWrite(r1, v) THEN ChannelWrite(r1, v, Msg("NEWAPP_RES", m.key, 0))
      ELSE r1

\* Mutant: the message is handled without being consumed from the ring.
ChannelPollVmPeekBug(r, v, ok) ==
  IF r.rdHost[v] = Len(toHost[v]) THEN r
  ELSE LET m == toHost[v][r.rdHost[v] + 1]
       IN  CASE m.type = "TASINFO_REQ" -> HandleTasinfoReq(r, v)
             [] m.type = "CONTEXT_REQ" -> HandleCtxReq(r, v, m, ok)
             [] m.type = "NEWAPP_REQ"  -> HandleNewapp(r, v, m, ok)

\* Mutant: the emptiness test is off by one and leaves the last message in the ring.
ChannelPollVmEmptyBug(r, v, ok) ==
  IF r.rdHost[v] + 1 >= Len(toHost[v]) THEN r
  ELSE LET m  == toHost[v][r.rdHost[v] + 1]
           r1 == [r EXCEPT !.rdHost[v] = @ + 1]
       IN  CASE m.type = "TASINFO_REQ" -> HandleTasinfoReq(r1, v)
             [] m.type = "CONTEXT_REQ" -> HandleCtxReq(r1, v, m, ok)
             [] m.type = "NEWAPP_REQ"  -> HandleNewapp(r1, v, m, ok)

\* channel_poll_vm: one message, if the rx ring is not empty.
ChannelPollVm(r, v, ok) ==
  IF r.rdHost[v] = Len(toHost[v]) THEN r
  ELSE LET m  == toHost[v][r.rdHost[v] + 1]
           r1 == [r EXCEPT !.rdHost[v] = @ + 1]
       IN  CASE m.type = "TASINFO_REQ" -> HandleTasinfoReq(r1, v)
             [] m.type = "CONTEXT_REQ" -> HandleCtxReq(r1, v, m, ok)
             [] m.type = "NEWAPP_REQ"  -> HandleNewapp(r1, v, m, ok)

(* chanel_poll: every slot of vms[] in turn; a slot no VM was recorded in *)
(* has vm->chan NULL, and shmring_is_empty(vm->chan->rx) crashes.          *)
RECURSIVE ChanelPoll(_, _, _)
ChanelPoll(r, i, ok) ==
  CASE i = MaxVms -> r
    [] ~r.conn[i] -> [r EXCEPT !.pc = "crashed"]
    [] OTHER -> ChanelPoll(ChannelPollVm(r, i, ok[i]), i + 1, ok)

-----------------------------------------------------------------------------
(* ctxs_poll.                                                              *)

\* The contexts whose evfd is in ctx_epfd and signalled.
Ready(r) == UNION {{<<v, j>> : j \in {k \in DOMAIN r.ctxs[v] : r.ctxs[v][k].ep /\ r.ctxs[v][k].sig}}
                   : v \in Vms}

(* The ready contexts in the order epoll_wait returns them: the evfd is   *)
(* drained, then a VPOKE written; a full ring ends ctxs_poll with -1.      *)
RECURSIVE PokeLoop(_, _)
PokeLoop(r, es) ==
  IF es = <<>> THEN r
  ELSE LET v  == Head(es)[1]
           j  == Head(es)[2]
           r1 == [r EXCEPT !.ctxs[v][j].sig = FALSE]
       IN  IF CanWrite(r1, v)
           THEN PokeLoop(ChannelWrite(r1, v, Msg("VPOKE", r.ctxs[v][j].ctxreq, 0)), Tail(es))
           ELSE r1

-----------------------------------------------------------------------------
(* ivshmem_poll, and the rest of one after a blocked accept returned.      *)

PollRest(r, ok, order) ==
  IF r.pc # "run" THEN r
  ELSE LET r1 == ChanelPoll(r, 0, ok)
       IN  IF r1.pc # "run" THEN r1 ELSE PokeLoop(r1, order)

\* The choices of the libtas proxy calls and of the epoll order.
Orders(r) == SetToSeqs(Ready(r))

IvshmemPoll ==
  /\ pc = "run"
  /\ \E oks \in [1..UxEvents(State) -> BOOLEAN], ok \in [Vms -> BOOLEAN] :
       \E r1 \in {AcceptLoop(State, oks)} :
         \E order \in Orders(ChanelPoll(r1, 0, ok)) :
           \E r2 \in {PollRest(r1, ok, order)} :
             Commit(r2) /\ UNCHANGED <<toHost, rdGuest, qemus, signals>>

\* The accept the thread is blocked in returns a qemu that connected.
AcceptReturns ==
  /\ pc = "accept" /\ pending > 0
  /\ \E ok \in [Vms -> BOOLEAN] :
       \E r1 \in {AcceptLoop([State EXCEPT !.pc = "run", !.left = <<>>], left)} :
         \E order \in Orders(ChanelPoll(r1, 0, ok)) :
           \E r2 \in {PollRest(r1, ok, order)} :
             Commit(r2) /\ UNCHANGED <<toHost, rdGuest, qemus, signals>>

-----------------------------------------------------------------------------
(* The environment.                                                        *)

\* A qemu starts and connects to the unix socket.
QemuConnect ==
  /\ qemus < MaxQemus
  /\ pending' = pending + 1 /\ qemus' = qemus + 1
  /\ UNCHANGED <<nextVm, conn, hup, oob, toHost, rdHost, toGuest, rdGuest, nextApp, ctxs,
                 signals, pc, left>>

\* A recorded VM's qemu exits: its cfd hangs up.
QemuExit(v) ==
  /\ conn[v] /\ v \notin hup
  /\ hup' = hup \cup {v}
  /\ UNCHANGED <<nextVm, conn, pending, qemus, oob, toHost, rdHost, toGuest, rdGuest,
                 nextApp, ctxs, signals, pc, left>>

\* The guest proxy of a running VM writes a request into a ring with room.
GuestSend(v, m) ==
  /\ conn[v] /\ v \notin hup
  /\ Len(toHost[v]) < MaxMsgs /\ Len(toHost[v]) - rdHost[v] < ChanCap
  /\ toHost' = [toHost EXCEPT ![v] = Append(@, m)]
  /\ UNCHANGED <<nextVm, conn, pending, qemus, hup, oob, rdHost, toGuest, rdGuest,
                 nextApp, ctxs, signals, pc, left>>

\* The guest proxy reads a message from its ring.
GuestRecv(v) ==
  /\ rdGuest[v] < Len(toGuest[v])
  /\ rdGuest' = [rdGuest EXCEPT ![v] = @ + 1]
  /\ UNCHANGED <<nextVm, conn, pending, qemus, hup, oob, toHost, rdHost, toGuest,
                 nextApp, ctxs, signals, pc, left>>

\* TAS signals the evfd of a context it created.
CtxSignal(v, j) ==
  /\ signals < MaxSignals /\ j \in DOMAIN ctxs[v] /\ ~ctxs[v][j].sig
  /\ ctxs' = [ctxs EXCEPT ![v][j].sig = TRUE] /\ signals' = signals + 1
  /\ UNCHANGED <<nextVm, conn, pending, qemus, hup, oob, toHost, rdHost, toGuest, rdGuest,
                 nextApp, pc, left>>

Env ==
  \/ QemuConnect
  \/ \E v \in Vms : \/ QemuExit(v) \/ GuestRecv(v)
                    \/ \E m \in Requests : GuestSend(v, m)
                    \/ \E j \in DOMAIN ctxs[v] : CtxSignal(v, j)

\* ivshmem_init: the sockets and epolls are set up, no VM is known.
Init ==
  /\ nextVm = 0 /\ conn = [v \in Vms |-> FALSE] /\ pending = 0 /\ qemus = 0
  /\ hup = {} /\ oob = FALSE
  /\ toHost = [v \in Vms |-> <<>>] /\ rdHost = [v \in Vms |-> 0]
  /\ toGuest = [v \in Vms |-> <<>>] /\ rdGuest = [v \in Vms |-> 0]
  /\ nextApp = [v \in Vms |-> 0] /\ ctxs = [v \in Vms |-> <<>>]
  /\ signals = 0 /\ pc = "run" /\ left = <<>>

Next == IvshmemPoll \/ AcceptReturns \/ Env

(* The proxy's main loop calls ivshmem_poll again and again, and a        *)
(* blocked accept() returns once a qemu is connecting.                     *)
Fairness == WF_vars(IvshmemPoll) /\ WF_vars(AcceptReturns)

Spec == Init /\ [][Next]_vars /\ Fairness


-----------------------------------------------------------------------------
(* Properties.                                                             *)

Responses == {"TASINFO_RES", "CONTEXT_RES", "NEWAPP_RES"}

TypeOK ==
  /\ nextVm \in 0..(MaxVms + 1) /\ conn \in [Vms -> BOOLEAN]
  /\ pending \in 0..MaxQemus /\ qemus \in 0..MaxQemus /\ hup \subseteq Vms
  /\ oob \in BOOLEAN /\ signals \in 0..MaxSignals
  /\ \A v \in Vms : /\ toHost[v] \in Seq(Requests) /\ rdHost[v] \in 0..Len(toHost[v])
                    /\ rdGuest[v] \in 0..Len(toGuest[v]) /\ nextApp[v] \in Nat
  /\ pc \in {"run", "accept", "crashed"} /\ left \in Seq(BOOLEAN)

\* The request type each response answers.
Answers(t) == CASE t = "TASINFO_RES" -> "TASINFO_REQ"
                [] t = "CONTEXT_RES" -> "CONTEXT_REQ"
                [] t = "NEWAPP_RES"  -> "NEWAPP_REQ"

CountOf(seq, t) == Cardinality({i \in DOMAIN seq : seq[i].type = t})

(* Every response channel_poll_vm's handlers write to a guest answers a   *)
(* request of that type the host has taken from the guest's ring: no     *)
(* request is answered twice, and none before it is read.                *)
ResponsesMatchRequests ==
  \A v \in Vms, t \in Responses :
    CountOf(toGuest[v], t) <= CountOf(SubSeq(toHost[v], 1, rdHost[v]), Answers(t))

(* A VPOKE for a context request is written to a guest only after the     *)
(* CONTEXT_RES for it: channel_handle_ctx_req adds the context's evfd to  *)
(* ctx_epfd only once the response was written, so ctxs_poll cannot poke  *)
(* a context the guest has not been told of.                             *)
PokeAfterContextRes ==
  \A v \in Vms : \A i \in DOMAIN toGuest[v] :
    toGuest[v][i].type = "VPOKE" =>
      \E k \in 1..(i - 1) : toGuest[v][k].type = "CONTEXT_RES"
                            /\ toGuest[v][k].key = toGuest[v][i].key

(* Every request a guest writes is eventually read by chanel_poll, unless *)
(* the poll thread crashed or a qemu has exited: the hung-up cfd stays in *)
(* epfd and sends every later uxsocket_poll into a blocking accept().     *)
RequestsEventuallyRead ==
  \A v \in Vms, n \in 1..MaxMsgs :
    Len(toHost[v]) >= n ~> (rdHost[v] >= n \/ pc = "crashed" \/ hup # {})

=============================================================================

------------------------------ MODULE ConnEvents ------------------------------
(***************************************************************************)
(* What flextcp_context_poll (src/lib/tas/init.c) promises the layer above *)
(* it about the events of one connection, whatever the kernel, the fast    *)
(* path and the event array do: the open (CONN_OPEN or LISTEN_ACCEPT)      *)
(* comes first and a failed open is the last event; data (RECEIVED) and   *)
(* the end of the peer's stream (RXCLOSED, once) come only while the       *)
(* connection is open and before RXCLOSED; TXCLOSED comes once and only    *)
(* after the application closed its side; SENDBUF never after TXCLOSED;    *)
(* after flextcp_connection_close nothing but CONN_CLOSED.                 *)
(*                                                                         *)
(* The abstract state of a connection is the phase of its event stream     *)
(* and four flags; a poll delivers a batch of events (evs) that must be    *)
(* legal one after the other.  Events that are not a connection's (the     *)
(* listener events, and the move reports) are out of this module's scope. *)
(* The sockets layer (SocketsContext) is written against this promise;    *)
(* LibtasContext is checked to implement it.                               *)
(***************************************************************************)
EXTENDS SequencesExt

CONSTANT Conns

VARIABLES
  phase,    \* per connection: "requested", "open" or "closed"
  rxEos,    \* CONN_RXCLOSED has been delivered
  txEos,    \* the application called flextcp_connection_tx_close
  txAck,    \* CONN_TXCLOSED has been delivered
  closing,  \* the application called flextcp_connection_close
  evs       \* the events the last poll returned

vars == <<phase, rxEos, txEos, txAck, closing, evs>>

\* The event types this module speaks about.
ConnEventTypes == {"CONN_OPEN", "LISTEN_ACCEPT", "CONN_RECEIVED", "CONN_SENDBUF",
                   "CONN_RXCLOSED", "CONN_TXCLOSED", "CONN_CLOSED"}

\* The abstract state of one connection, as a record.
St(c) == [phase |-> phase[c], rxEos |-> rxEos[c], txEos |-> txEos[c],
          txAck |-> txAck[c], closing |-> closing[c]]

\* Delivering event type t (with status st) to a connection in state k:
\* the next state, or the state in the phase "illegal".
Step(k, t, st) ==
  LET live == k.phase = "open" /\ ~k.closing
  IN  CASE k.phase = "illegal" -> k
        [] t \in {"CONN_OPEN", "LISTEN_ACCEPT"} /\ k.phase = "requested" ->
             [k EXCEPT !.phase = IF st = 0 THEN "open" ELSE "closed"]
        [] t = "CONN_RECEIVED" /\ live /\ ~k.rxEos -> k
        [] t = "CONN_SENDBUF" /\ live /\ ~k.txAck -> k
        [] t = "CONN_RXCLOSED" /\ live /\ ~k.rxEos -> [k EXCEPT !.rxEos = TRUE]
        [] t = "CONN_TXCLOSED" /\ live /\ k.txEos /\ ~k.txAck ->
             [k EXCEPT !.txAck = TRUE]
        [] t = "CONN_CLOSED" /\ k.phase = "open" /\ k.closing ->
             [k EXCEPT !.phase = "closed"]
        [] OTHER -> [k EXCEPT !.phase = "illegal"]

\* The state of connection c after the batch es.
After(c, es) ==
  FoldLeft(LAMBDA k, e : IF e.c = c /\ e.type \in ConnEventTypes
                         THEN Step(k, e.type, e.status) ELSE k,
           St(c), es)

Init ==
  /\ phase = [c \in Conns |-> "requested"]
  /\ rxEos = [c \in Conns |-> FALSE]
  /\ txEos = [c \in Conns |-> FALSE]
  /\ txAck = [c \in Conns |-> FALSE]
  /\ closing = [c \in Conns |-> FALSE]
  /\ evs = <<>>

\* flextcp_connection_tx_close on an open connection.
TxClose(c) ==
  /\ phase[c] = "open" /\ ~closing[c] /\ ~txEos[c]
  /\ txEos' = [txEos EXCEPT ![c] = TRUE]
  /\ UNCHANGED <<phase, rxEos, txAck, closing, evs>>

\* flextcp_connection_close on an open connection.
Close(c) ==
  /\ phase[c] = "open" /\ ~closing[c]
  /\ closing' = [closing EXCEPT ![c] = TRUE]
  /\ UNCHANGED <<phase, rxEos, txEos, txAck, evs>>

(* A poll returns the batch evs', legal for every connection; the state   *)
(* of each connection moves by its events.                                 *)
Deliver ==
  /\ \A c \in Conns : After(c, evs').phase # "illegal"
  /\ phase' = [c \in Conns |-> After(c, evs').phase]
  /\ rxEos' = [c \in Conns |-> After(c, evs').rxEos]
  /\ txAck' = [c \in Conns |-> After(c, evs').txAck]
  /\ UNCHANGED <<txEos, closing>>

Next == Deliver \/ \E c \in Conns : TxClose(c) \/ Close(c)

Spec == Init /\ [][Next]_vars

=============================================================================

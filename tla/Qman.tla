-------------------------------- MODULE Qman --------------------------------
(***************************************************************************)
(* The TAS queue manager (src/tas/fast/qman.c): one qman_thread, its FIFO *)
(* of active applications (app_cont), and per application a flow_cont      *)
(* holding an index-linked skip list of rate-limited flows and a FIFO of   *)
(* unlimited flows.  All links are arena indices with IDXLIST_INVAL as     *)
(* the null index, exactly as in the code.                                 *)
(*                                                                         *)
(* qman_poll runs its application loop to completion before any other     *)
(* call (the thread is single-core and the calls are synchronous); the     *)
(* model takes one step per iteration of that loop, with qman_set          *)
(* disabled while a poll is in progress, because every iteration reads the *)
(* clock afresh (timestamp() in flow_qman_poll).  The flow-level loops of  *)
(* one iteration do not read the clock and are folded into that step.      *)
(***************************************************************************)
EXTENDS QmanTime, Integers, Sequences, SequencesExt, FiniteSets

CONSTANTS
  Apps,            \* application slots 0..FLEXNIC_PL_APPST_NUM-1
  NumFlows,        \* FLEXNIC_NUM_QMFLOWQUEUES
  BadFlowIds,      \* flow ids >= NumFlows a caller may pass to qman_set
  Levels,          \* QMAN_SKIPLIST_LEVELS
  RateScale,       \* the factor 8 * 1000000 of flow_queue_new_ts
  Rates,           \* rates qman_set may assign (0 = unlimited)
  MaxChunks,       \* max_chunk values qman_set may assign
  SetInputs,       \* the (flags, rate, avail, max_chunk) of qman_set calls
  Batches,         \* num values qman_poll is called with
  Elapsed,         \* real time that may pass between two timestamp() reads
  MaxSetCalls      \* bound on the number of qman_set calls of a behaviour

ASSUME Levels \in Nat \ {0} /\ NumFlows \in Nat \ {0}
ASSUME \A b \in BadFlowIds : b >= NumFlows

INVAL == -1                       \* IDXLIST_INVAL
Flows == 0 .. NumFlows - 1
Idx   == Flows \cup {INVAL}
Lv    == 0 .. Levels - 1

\* Queue flag bits FLAG_INSKIPLIST and FLAG_INNOLIMITL.
INSKIPLIST == "INSKIPLIST"
INNOLIMITL == "INNOLIMITL"

\* Flag bits of qman_set (internal.h).
SetFlags == {"SET_RATE", "SET_MAXCHUNK", "SET_AVAIL", "ADD_AVAIL"}

ASSUME \A in \in SetInputs : in.flags \subseteq SetFlags

VARIABLES
  fq,          \* fq[a][f]: struct flow_queue of flow f of application a
  fc,          \* fc[a]: struct flow_cont of application a (list heads)
  aq,          \* aq[a]: struct app_queue
  ac,          \* struct app_cont: head and tail of the active-app FIFO
  ts_virtual,  \* qman_thread.ts_virtual
  ts_real,     \* qman_thread.ts_real
  poll,        \* the qman_poll in progress: [num, cnt], or NoPoll
  setCalls     \* number of qman_set calls so far (model bound)

vars == <<fq, fc, aq, ac, ts_virtual, ts_real, poll, setCalls>>

NoPoll == [num |-> 0, cnt |-> -1]
Polling == poll # NoPoll

FlowRec == [next : [Lv -> Idx], next_ts : Timestamps, rate : Rates \cup {0},
            avail : Nat, max_chunk : MaxChunks \cup {0},
            flags : SUBSET {INSKIPLIST, INNOLIMITL}]
ContRec == [head : [Lv -> Idx], nl_head : Idx, nl_tail : Idx,
            nolimit_first : BOOLEAN]
AppRec  == [next : Apps \cup {INVAL}, avail : Nat, inlist : BOOLEAN]

-----------------------------------------------------------------------------
(* Flow level.  A flow-level state s is a record holding the arrays of one *)
(* flow_cont (s.q, s.c), the thread's clock (s.vts, s.real), the random   *)
(* levels still to be drawn by utils_rng_gen32 (s.lv) and the entries     *)
(* written to q_ids/q_bytes (s.out).                                      *)
(* The operators named ...Bug are variants of the operator after them    *)
(* with one plausible coding error each; each property is shown to catch *)
(* one of them.                                                          *)

RECURSIVE SkiplistWalk(_, _, _, _, _, _), SkiplistPreds(_, _, _, _),
          SkiplistPredsFrom(_, _, _, _), FlowPollNolimit(_, _, _),
          FlowPollNolimitPopped(_, _, _, _), SkiplistLoop(_, _, _, _),
          SkiplistLoopPopped(_, _, _, _, _), FlowPollPhases(_, _, _, _)

(* Each operator below applies another one at most once per branch and   *)
(* passes intermediate states as arguments rather than naming them in a  *)
(* LET that is referenced several times.                                 *)

\* flow_queue_new_ts: virtual time after sending bytes at the flow's rate.
FlowQueueNewTs(s, f, bytes) ==
  TsAdd(s.vts, (bytes * RateScale) \div s.q[f].rate)

\* Bug: next_idxs[0] of the appended flow is not reset.
FlowQueueActivateNolimitBug(s, f) ==
  LET t == s.c.nl_tail
      q1 == [s.q EXCEPT ![f].flags = @ \cup {INNOLIMITL}]
  IN  IF t = INVAL
      THEN [s EXCEPT !.q = q1, !.c.nl_head = f, !.c.nl_tail = f]
      ELSE [s EXCEPT !.q = [q1 EXCEPT ![t].next[0] = f], !.c.nl_tail = f]

\* flow_queue_activate_nolimit: append f at the tail of the no-limit FIFO.
FlowQueueActivateNolimit(s, f) ==
  LET t == s.c.nl_tail
      q1 == [s.q EXCEPT ![f].flags = @ \cup {INNOLIMITL}, ![f].next[0] = INVAL]
  IN  IF t = INVAL
      THEN [s EXCEPT !.q = q1, !.c.nl_head = f, !.c.nl_tail = f]
      ELSE [s EXCEPT !.q = [q1 EXCEPT ![t].next[0] = f], !.c.nl_tail = f]

\* Bug: the arguments of the comparison are swapped.
SkiplistWalkBug(s, l, idx, pred, ts, fuel) ==
  IF idx # INVAL /\ fuel > 0
     /\ TimestampLessThanEq(s.vts, ts, s.q[idx].next_ts)
  THEN SkiplistWalk(s, l, s.q[idx].next[l], idx, ts, fuel - 1)
  ELSE pred

(* The search loop of flow_queue_activate_skiplist at level l: follow     *)
(* next pointers from idx while the node's next_ts <= ts; the last node   *)
(* passed is the predecessor.  fuel bounds the walk by the arena size.    *)
SkiplistWalk(s, l, idx, pred, ts, fuel) ==
  IF idx # INVAL /\ fuel > 0
     /\ TimestampLessThanEq(s.vts, s.q[idx].next_ts, ts)
  THEN SkiplistWalk(s, l, s.q[idx].next[l], idx, ts, fuel - 1)
  ELSE pred

\* preds[l] for levels top-down, each level starting from the level above.
SkiplistPreds(s, l, pred, ts) ==
  IF l < 0 THEN [m \in {} |-> INVAL]
  ELSE SkiplistPredsFrom(s, l,
         SkiplistWalk(s, l, IF pred # INVAL THEN pred ELSE s.c.head[l],
                      pred, ts, NumFlows + 1), ts)

SkiplistPredsFrom(s, l, p, ts) == (l :> p) @@ SkiplistPreds(s, l - 1, p, ts)

\* Bug: a next_ts in the past is kept.
ClampNextTsBugLow(s, f) ==
  LET maxTs == FlowQueueNewTs(s, f, s.q[f].max_chunk)
  IN  IF ~TimestampLessThanEq(s.vts, s.q[f].next_ts, maxTs) THEN maxTs
      ELSE s.q[f].next_ts

\* Bug: a next_ts beyond one max_chunk is kept.
ClampNextTsBugHigh(s, f) ==
  IF TimestampLessThanEq(s.vts, s.q[f].next_ts, s.vts) THEN s.vts
  ELSE s.q[f].next_ts

(* The start of flow_queue_activate_skiplist: next_ts made "not in the   *)
(* past" and "not more than if it just sent max_chunk at the current     *)
(* rate".                                                                *)
ClampNextTs(s, f) ==
  LET ts0   == s.q[f].next_ts
      maxTs == FlowQueueNewTs(s, f, s.q[f].max_chunk)
  IN  IF TimestampLessThanEq(s.vts, ts0, s.vts) THEN s.vts
      ELSE IF ~TimestampLessThanEq(s.vts, ts0, maxTs) THEN maxTs
      ELSE ts0

(* The insertion loop of flow_queue_activate_skiplist: at levels up to   *)
(* the level drawn f goes after preds[l] (or at the head), above it its  *)
(* link is IDXLIST_INVAL; the level is consumed from s.lv.                *)
SkiplistLink(s, f, preds) ==
  LET linked(l) == l <= Head(s.lv)
  IN  [s EXCEPT
        !.q = [g \in Flows |->
                IF g = f
                THEN [s.q[f] EXCEPT
                       !.flags = @ \cup {INSKIPLIST},
                       !.next = [l \in Lv |->
                                  IF ~linked(l) THEN INVAL
                                  ELSE IF preds[l] # INVAL
                                       THEN s.q[preds[l]].next[l]
                                       ELSE s.c.head[l]]]
                ELSE [s.q[g] EXCEPT
                       !.next = [l \in Lv |->
                                  IF linked(l) /\ preds[l] = g THEN f
                                  ELSE @[l]]]],
        !.c.head = [l \in Lv |->
                     IF linked(l) /\ preds[l] = INVAL THEN f ELSE @[l]],
        !.lv = Tail(@)]

\* The predecessors of f at its (clamped) next_ts, then the insertion.
SkiplistInsert(s, f) ==
  SkiplistLink(s, f, SkiplistPreds(s, Levels - 1, INVAL, s.q[f].next_ts))

\* flow_queue_activate_skiplist: clamp next_ts, then insert f.
FlowQueueActivateSkiplist(s, f) ==
  SkiplistInsert([s EXCEPT !.q[f].next_ts = ClampNextTs(s, f)], f)

\* flow_queue_activate: by rate, into the no-limit FIFO or the skip list.
FlowQueueActivate(s, f) ==
  IF s.q[f].rate = 0 THEN FlowQueueActivateNolimit(s, f)
                     ELSE FlowQueueActivateSkiplist(s, f)

\* Bug: max_chunk bytes are released even when fewer are available.
FireTakeBug(s, f) ==
  LET bytes == s.q[f].max_chunk
  IN  [s EXCEPT !.q[f].avail = @ - bytes,
                !.q[f].next_ts = IF s.q[f].rate > 0
                                 THEN FlowQueueNewTs(s, f, bytes) ELSE @,
                !.out = Append(@, <<f, bytes>>)]

(* The first part of flow_queue_fire: release min(avail, max_chunk)      *)
(* bytes, recompute next_ts of a rate-limited flow, and write the entry  *)
(* <<f, bytes>> to the output arrays.                                     *)
FireTake(s, f) ==
  LET bytes == IF s.q[f].avail <= s.q[f].max_chunk THEN s.q[f].avail
                                                   ELSE s.q[f].max_chunk
  IN  [s EXCEPT !.q[f].avail = @ - bytes,
                !.q[f].next_ts = IF s.q[f].rate > 0
                                 THEN FlowQueueNewTs(s, f, bytes) ELSE @,
                !.out = Append(@, <<f, bytes>>)]

\* Bug: a rate-limited flow with bytes left is not put back in the list.
FireRequeueBug(s, f) ==
  IF s.q[f].avail > 0 /\ s.q[f].rate = 0 THEN FlowQueueActivate(s, f) ELSE s

\* The rest of flow_queue_fire: reactivate the flow if bytes are left.
FireRequeue(s, f) ==
  IF s.q[f].avail > 0 THEN FlowQueueActivate(s, f) ELSE s

\* flow_queue_fire.
FlowQueueFire(s, f) == FireRequeue(FireTake(s, f), f)

(* flow_poll_nolimit: pop the FIFO head, clear its flag, fire it if it   *)
(* has bytes, until num entries or the FIFO is empty.                    *)
FlowPollNolimit(s, num, cnt) ==
  IF cnt < num /\ s.c.nl_head # INVAL
  THEN FlowPollNolimitPopped(
         [s EXCEPT !.c.nl_head = s.q[s.c.nl_head].next[0],
                   !.c.nl_tail = IF s.q[s.c.nl_head].next[0] = INVAL THEN INVAL ELSE @,
                   !.q[s.c.nl_head].flags = @ \ {INNOLIMITL}],
         s.c.nl_head, num, cnt)
  ELSE s

FlowPollNolimitPopped(s, idx, num, cnt) ==
  IF s.q[idx].avail > 0 THEN FlowPollNolimit(FlowQueueFire(s, idx), num, cnt + 1)
                        ELSE FlowPollNolimit(s, num, cnt)

(* The loop of flow_poll_skiplist: pop the level-0 head while it is due   *)
(* by maxVts, unlinking it from every level it heads, and advance the     *)
(* virtual time to its next_ts; the result is [st, cnt].                 *)
SkiplistLoop(s, maxVts, num, cnt) ==
  LET idx == s.c.head[0]
  IN  CASE cnt >= num -> [st |-> s, cnt |-> cnt]
        [] idx = INVAL \/ ~TimestampLessThanEq(s.vts, s.q[idx].next_ts, maxVts) ->
             [st |-> [s EXCEPT !.vts = maxVts], cnt |-> cnt]
        [] OTHER ->
             SkiplistLoopPopped(
               [s EXCEPT !.c.head = [l \in Lv |->
                                      IF \A m \in 0 .. l : s.c.head[m] = idx
                                      THEN s.q[idx].next[l] ELSE @[l]],
                         !.q[idx].flags = @ \ {INSKIPLIST},
                         !.vts = s.q[idx].next_ts],
               idx, maxVts, num, cnt)

SkiplistLoopPopped(s, idx, maxVts, num, cnt) ==
  IF s.q[idx].avail > 0 THEN SkiplistLoop(FlowQueueFire(s, idx), maxVts, num, cnt + 1)
                        ELSE SkiplistLoop(s, maxVts, num, cnt)

(* The end of flow_poll_skiplist: when the budget ran out, the virtual    *)
(* time is set to the next pending timestamp if it is due by maxVts, else *)
(* to maxVts; ts_real is synchronised to cur.                             *)
SkiplistFinish(r, maxVts, cur, num) ==
  LET s   == r.st
      idx == s.c.head[0]
      vts == IF r.cnt # num THEN s.vts
             ELSE IF idx # INVAL
                     /\ TimestampLessThanEq(s.vts, s.q[idx].next_ts, maxVts)
                  THEN s.q[idx].next_ts
                  ELSE maxVts
  IN  [s EXCEPT !.vts = vts, !.real = cur]

\* flow_poll_skiplist, with max_vts = ts_virtual + (cur_ts - ts_real).
FlowPollSkiplist(s, cur, num) ==
  LET maxVts == TsAdd(s.vts, TsSub(cur, s.real))
  IN  SkiplistFinish(SkiplistLoop(s, maxVts, num, 0), maxVts, cur, num)

(* The two polls of flow_qman_poll in the given order, the second with    *)
(* what the first left of the budget num.                                 *)
FlowPollPhases(s, cur, num, phases) ==
  IF phases = <<>> THEN s
  ELSE FlowPollPhases(
         IF Head(phases) = "nolimit"
         THEN FlowPollNolimit(s, num - Len(s.out), 0)
         ELSE FlowPollSkiplist(s, cur, num - Len(s.out)),
         cur, num, Tail(phases))

(* flow_qman_poll: service the no-limit FIFO and the skip list in the     *)
(* order given by nolimit_first, then flip nolimit_first.                 *)
FlowQmanPoll(s, cur, num) ==
  [FlowPollPhases(s, cur, num,
                  IF s.c.nolimit_first THEN <<"nolimit", "skiplist">>
                                       ELSE <<"skiplist", "nolimit">>)
     EXCEPT !.c.nolimit_first = ~@]

-----------------------------------------------------------------------------
(* Application level.                                                      *)

\* Bug: next_idx of the appended application is not reset.
AppQueueActivateBug(q, c, a) ==
  LET q1 == [q EXCEPT ![a].inlist = TRUE]
  IN  IF c.tail = INVAL
      THEN [aq |-> q1, ac |-> [head |-> a, tail |-> a]]
      ELSE [aq |-> [q1 EXCEPT ![c.tail].next = a], ac |-> [c EXCEPT !.tail = a]]

\* app_queue_activate: append application a to the active-app FIFO.
AppQueueActivate(q, c, a) ==
  LET q1 == [q EXCEPT ![a].inlist = TRUE, ![a].next = INVAL]
  IN  IF c.tail = INVAL
      THEN [aq |-> q1, ac |-> [head |-> a, tail |-> a]]
      ELSE [aq |-> [q1 EXCEPT ![c.tail].next = a], ac |-> [c EXCEPT !.tail = a]]

\* sum_bytes over the entries one flow_qman_poll produced.
SumBytes(out) == FoldLeft(LAMBDA acc, e : acc + e[2], 0, out)

\* Bug: the bytes sent are not subtracted from the application's avail.
AppQueueFireBug(q, c, a, out) ==
  IF q[a].avail > 0 THEN AppQueueActivate(q, c, a) ELSE [aq |-> q, ac |-> c]

(* app_queue_fire: subtract the bytes the application's flows sent and   *)
(* re-append it if its avail is still positive.                           *)
AppQueueFire(q, c, a, out) ==
  LET q1 == [q EXCEPT ![a].avail = @ - SumBytes(out)]
  IN  IF q1[a].avail > 0 THEN AppQueueActivate(q1, c, a) ELSE [aq |-> q1, ac |-> c]

\* Bug: ADD_AVAIL marks the update but does not add to the application.
AppSetImplBug(a, f, avail, flags) ==
  LET appAvail == IF "SET_AVAIL" \in flags
                  THEN aq[a].avail - fq[a][f].avail + avail ELSE aq[a].avail
      q1 == [aq EXCEPT ![a].avail = appAvail]
  IN  IF ("SET_AVAIL" \in flags \/ "ADD_AVAIL" \in flags) /\ appAvail > 0 /\ ~aq[a].inlist
      THEN AppQueueActivate(q1, ac, a) ELSE [aq |-> q1, ac |-> ac]

(* app_set_impl: set or add the application's avail (SET_AVAIL first     *)
(* takes out the flow's previous avail) and activate the application if  *)
(* avail was given, is positive and the application is not listed.        *)
AppSetImpl(a, f, avail, flags) ==
  LET newAvail == "SET_AVAIL" \in flags \/ "ADD_AVAIL" \in flags
      appAvail == CASE "SET_AVAIL" \in flags -> aq[a].avail - fq[a][f].avail + avail
                    [] "ADD_AVAIL" \in flags -> aq[a].avail + avail
                    [] OTHER                 -> aq[a].avail
      q1 == [aq EXCEPT ![a].avail = appAvail]
  IN  IF newAvail /\ appAvail > 0 /\ ~aq[a].inlist
      THEN AppQueueActivate(q1, ac, a) ELSE [aq |-> q1, ac |-> ac]

\* The flow-level state of application a at the current thread clock.
FlowState(a, lv) ==
  [q |-> fq[a], c |-> fc[a], vts |-> ts_virtual, real |-> ts_real,
   lv |-> lv, out |-> <<>>]

(* flowcont_init: the flow_queue arena is calloc'ed (all fields 0), the  *)
(* list heads are IDXLIST_INVAL, and nolimit_first is left uninitialised  *)
(* (the flow_cont is malloc'ed), so either value may be read.             *)
FlowContInit ==
  /\ fq = [a \in Apps |-> [f \in Flows |->
            [next |-> [l \in Lv |-> 0], next_ts |-> 0, rate |-> 0,
             avail |-> 0, max_chunk |-> 0, flags |-> {}]]]
  /\ fc \in [Apps -> {[head |-> [l \in Lv |-> INVAL], nl_head |-> INVAL,
                       nl_tail |-> INVAL, nolimit_first |-> b] : b \in BOOLEAN}]

\* appcont_init: app_queue arena calloc'ed, avail 0, the FIFO empty.
AppContInit ==
  /\ aq = [a \in Apps |-> [next |-> 0, avail |-> 0, inlist |-> FALSE]]
  /\ ac = [head |-> INVAL, tail |-> INVAL]

\* qman_thread_init: ts_virtual = 0 and ts_real = timestamp(), any reading.
ThreadInit ==
  /\ ts_virtual = 0
  /\ ts_real \in Timestamps

Init ==
  /\ FlowContInit
  /\ AppContInit
  /\ ThreadInit
  /\ poll = NoPoll
  /\ setCalls = 0

\* The new fields flow_set_impl writes into flow f of s.
FlowSetFields(s, f, rate, avail, maxChunk, flags) ==
  [s EXCEPT !.q[f].rate = IF "SET_RATE" \in flags THEN rate ELSE @,
            !.q[f].max_chunk = IF "SET_MAXCHUNK" \in flags THEN maxChunk ELSE @,
            !.q[f].avail = CASE "SET_AVAIL" \in flags -> avail
                             [] "ADD_AVAIL" \in flags -> @ + avail
                             [] OTHER -> @]

\* The activation at the end of flow_set_impl.
FlowSetActivate(s, f, flags) ==
  IF ("SET_AVAIL" \in flags \/ "ADD_AVAIL" \in flags)
     /\ s.q[f].avail > 0 /\ s.q[f].flags = {}
  THEN FlowQueueActivate(s, f) ELSE s

(* flow_set_impl: update rate, max_chunk and avail as flagged, and        *)
(* activate the flow when avail was given, is positive and the flow is in *)
(* no list; level is what flow_queue_level draws for a skip-list insert.  *)
FlowSetImpl(a, f, rate, avail, maxChunk, flags, level) ==
  FlowSetActivate(FlowSetFields(FlowState(a, <<level>>), f, rate, avail,
                                maxChunk, flags), f, flags)

\* The new arrays of application a's flow_cont, and of the app_cont.
FlowCommit(a, s) ==
  /\ fq' = [fq EXCEPT ![a] = s.q]
  /\ fc' = [fc EXCEPT ![a] = s.c]

AppCommit(A) ==
  /\ aq' = A.aq
  /\ ac' = A.ac

(* qman_set -> app_qman_set: app_set_impl updates and activates the       *)
(* application before flow_qman_set validates the flow id; an invalid id  *)
(* then returns -1 with the application already updated.                  *)
QmanSet(a, f, rate, avail, maxChunk, flags, level) ==
  /\ ~Polling
  /\ setCalls < MaxSetCalls
  /\ AppCommit(AppSetImpl(a, f, avail, flags))
  /\ IF f \in Flows
     THEN FlowCommit(a, FlowSetImpl(a, f, rate, avail, maxChunk, flags, level))
     ELSE UNCHANGED <<fq, fc>>
  /\ setCalls' = setCalls + 1
  /\ UNCHANGED <<ts_virtual, ts_real, poll>>

\* qman_poll(num) is called.
QmanPollBegin(num) ==
  /\ ~Polling
  /\ poll' = [num |-> num, cnt |-> 0]
  /\ UNCHANGED <<fq, fc, aq, ac, ts_virtual, ts_real, setCalls>>

(* The end of an iteration of app_qman_poll: a was popped (its inlist     *)
(* cleared) and is passed to app_queue_fire with the entries out if it    *)
(* has avail.                                                             *)
AppPollRequeue(a, out) ==
  LET c1 == [ac EXCEPT !.head = aq[a].next,
                       !.tail = IF aq[a].next = INVAL THEN INVAL ELSE @]
      q1 == [aq EXCEPT ![a].inlist = FALSE]
  IN  AppCommit(IF q1[a].avail > 0 THEN AppQueueFire(q1, c1, a, out)
                ELSE [aq |-> q1, ac |-> c1])

\* The state flow_qman_poll leaves for application a, written back.
AppQmanPollApply(a, s) ==
  /\ FlowCommit(a, s)
  /\ ts_virtual' = s.vts
  /\ ts_real' = s.real
  /\ AppPollRequeue(a, s.out)
  /\ poll' = [poll EXCEPT !.cnt = @ + Len(s.out)]

(* One iteration of the loop of app_qman_poll: pop the head application,  *)
(* poll its flows with the rest of the budget at the time read now, and   *)
(* re-append it if its avail stays positive after subtracting the bytes.  *)
(* lv holds the levels the random generator yields for reinsertions.      *)
AppQmanPollIteration(d, lv) ==
  /\ Polling
  /\ poll.cnt < poll.num /\ ac.head # INVAL
  /\ AppQmanPollApply(ac.head, FlowQmanPoll(FlowState(ac.head, lv),
                                            TsAdd(ts_real, d), poll.num - poll.cnt))
  /\ UNCHANGED setCalls

\* app_qman_poll leaves its loop and qman_poll returns cnt.
QmanPollReturn ==
  /\ Polling
  /\ poll.cnt >= poll.num \/ ac.head = INVAL
  /\ poll' = NoPoll
  /\ UNCHANGED <<fq, fc, aq, ac, ts_virtual, ts_real, setCalls>>

\* An iteration at any clock reading and with any random levels.
AppQmanPollStep ==
  \E d \in Elapsed : \E lv \in [1 .. poll.num - poll.cnt -> Lv] :
    AppQmanPollIteration(d, lv)

(* The connection layer configures a flow's max_chunk in its first call  *)
(* (the flow_queue arena is calloc'ed, so an unconfigured flow has        *)
(* max_chunk 0 and would be fired for 0 bytes forever).                   *)
CallerContract(a, f, in) ==
  "SET_MAXCHUNK" \in in.flags \/ fq[a][f].max_chunk > 0

Next ==
  \/ \E a \in Apps, f \in Flows, in \in SetInputs, l \in Lv :
       CallerContract(a, f, in) /\ QmanSet(a, f, in.rate, in.avail, in.max_chunk, in.flags, l)
  \* an out-of-range flow id; with QMAN_SET_AVAIL app_set_impl would read
  \* fc->queues[flow_id] out of bounds, so only adding calls are enumerated
  \/ \E a \in Apps, f \in BadFlowIds, in \in SetInputs :
       "SET_AVAIL" \notin in.flags /\ QmanSet(a, f, in.rate, in.avail, in.max_chunk, in.flags, 0)
  \/ \E n \in Batches : QmanPollBegin(n)
  \/ AppQmanPollStep
  \/ QmanPollReturn

(* qman_poll never suspends: once called, the loop keeps iterating and    *)
(* returns when it can.  PollCanStep is ENABLED <<AppQmanPollStep>>_vars:  *)
(* the iteration's choices range over non-empty sets and it always flips   *)
(* nolimit_first, and no other action is enabled while polling.  Weak     *)
(* fairness of the iteration is written out with it, which spares TLC the *)
(* evaluation of ENABLED over the flow-level recursion.                    *)
PollCanStep == Polling /\ poll.cnt < poll.num /\ ac.head # INVAL

Fairness ==
  /\ WF_vars(QmanPollReturn)
  /\ ([]<>~PollCanStep \/ []<><<AppQmanPollStep>>_vars)

Spec == Init /\ [][Next]_vars /\ Fairness

-----------------------------------------------------------------------------
(* The lists the index links spell out.                                    *)

\* Walk the next[l] links from i; fuel bounds the walk by the arena size.
RECURSIVE ListFrom(_, _, _, _)
ListFrom(q, l, i, fuel) ==
  IF i = INVAL \/ fuel = 0 THEN <<>>
  ELSE <<i>> \o ListFrom(q, l, q[i].next[l], fuel - 1)

RECURSIVE AppListFrom(_, _)
AppListFrom(i, fuel) ==
  IF i = INVAL \/ fuel = 0 THEN <<>>
  ELSE <<i>> \o AppListFrom(aq[i].next, fuel - 1)

SkipLevel(a, l) == ListFrom(fq[a], l, fc[a].head[l], NumFlows + 1)
NolimitList(a)  == ListFrom(fq[a], 0, fc[a].nl_head, NumFlows + 1)
AppList         == AppListFrom(ac.head, Cardinality(Apps) + 1)

\* A list of at most n distinct indices, i.e. one ending in IDXLIST_INVAL.
IsChain(seq, n) == Len(seq) <= n /\ Cardinality(ToSet(seq)) = Len(seq)

-----------------------------------------------------------------------------
(* Properties.                                                             *)

TypeOK ==
  /\ fq \in [Apps -> [Flows -> FlowRec]]
  /\ fc \in [Apps -> ContRec]
  /\ aq \in [Apps -> AppRec]
  /\ ac \in [head : Apps \cup {INVAL}, tail : Apps \cup {INVAL}]
  /\ ts_virtual \in Timestamps /\ ts_real \in Timestamps
  /\ poll \in {NoPoll} \cup [num : Batches, cnt : Nat]
  /\ setCalls \in 0 .. MaxSetCalls

(* The index links of every flow_cont and of the app_cont spell out the   *)
(* lists the queue flags claim: each level of the skip list and the       *)
(* no-limit FIFO end in IDXLIST_INVAL, the level-0 list holds exactly the *)
(* flows flagged FLAG_INSKIPLIST, every higher level is a sublist of the  *)
(* level below in the same order (what lets flow_poll_skiplist unlink the *)
(* head only where it is the head), the no-limit FIFO holds exactly the   *)
(* flows flagged FLAG_INNOLIMITL with nolimit_tail_idx at its end (the    *)
(* two lists share next_idxs[0]), no flow is in both, and the app FIFO    *)
(* holds exactly the applications flagged as listed, tail at its end.     *)
ListsWellFormed ==
  /\ \A a \in Apps :
       /\ \A l \in Lv : IsChain(SkipLevel(a, l), NumFlows)
       /\ ToSet(SkipLevel(a, 0)) = {f \in Flows : INSKIPLIST \in fq[a][f].flags}
       /\ \A l \in Lv \ {0} :
            SelectSeq(SkipLevel(a, l - 1), LAMBDA x : x \in ToSet(SkipLevel(a, l)))
              = SkipLevel(a, l)
       /\ IsChain(NolimitList(a), NumFlows)
       /\ ToSet(NolimitList(a)) = {f \in Flows : INNOLIMITL \in fq[a][f].flags}
       /\ fc[a].nl_tail = IF NolimitList(a) = <<>> THEN INVAL ELSE Last(NolimitList(a))
       /\ \A f \in Flows : fq[a][f].flags # {INSKIPLIST, INNOLIMITL}
  /\ IsChain(AppList, Cardinality(Apps))
  /\ ToSet(AppList) = {a \in Apps : aq[a].inlist}
  /\ ac.tail = IF AppList = <<>> THEN INVAL ELSE Last(AppList)

(* A flow with bytes left is in one of its application's lists, and an    *)
(* application with bytes left is in the active-app FIFO: no backlog is   *)
(* forgotten by a fire, a poll that pops it, or a qman_set that changes   *)
(* rate, max_chunk and avail together.                                    *)
BackloggedIsScheduled ==
  /\ \A a \in Apps, f \in Flows : fq[a][f].avail > 0 => fq[a][f].flags # {}
  /\ \A a \in Apps : aq[a].avail > 0 => aq[a].inlist

(* The avail of an application, kept by app_set_impl and app_queue_fire, *)
(* equals the sum of the avail of its flows, kept by flow_set_impl and    *)
(* flow_queue_fire.                                                       *)
AppAvailIsFlowSum ==
  \A a \in Apps : aq[a].avail = FoldFunction(LAMBDA r, acc : r.avail + acc, 0, fq[a])

(* The avail of an application is never below the sum of its flows'     *)
(* avail, whatever qman_set calls with valid or invalid flow ids came    *)
(* first: app_queue_fire subtracts the bytes its flows sent from the     *)
(* uint32_t aq->avail, which would wrap if they exceeded it.              *)
AppAvailCoversFlows ==
  \A a \in Apps : aq[a].avail >= FoldFunction(LAMBDA r, acc : r.avail + acc, 0, fq[a])

(* The skip list of every application is ordered by next_ts as           *)
(* timestamp_lessthaneq reads it at the current virtual time, so          *)
(* rel_time, from the ts_virtual the thread has reached to every          *)
(* timestamp of the model's width, returns a distance that added to       *)
(* ts_virtual gives back the timestamp and is at most half the timestamp  *)
(* space in either direction: the wraparound trick that every             *)
(* timestamp_lessthaneq of the skip list relies on is sound.              *)
RelTimeIsWrappedDistance ==
  \A t \in Timestamps :
    /\ (ts_virtual + RelTime(ts_virtual, t)) % TsMod = t
    /\ -Middle <= RelTime(ts_virtual, t) /\ RelTime(ts_virtual, t) <= Middle

(* flow_poll_skiplist fires the earliest-due flow first.                  *)
SkiplistOrdered ==
  \A a \in Apps :
    IsSorted([i \in DOMAIN SkipLevel(a, 0) |-> fq[a][SkipLevel(a, 0)[i]].next_ts],
             LAMBDA x, y : TimestampLessThanEq(ts_virtual, x, y))

(* The largest gap flow_queue_new_ts can put between ts_virtual and the   *)
(* next_ts of a flow: one max_chunk at the lowest positive rate.           *)
MaxGap ==
  LET gaps == {(m * RateScale) \div r : m \in MaxChunks, r \in Rates \ {0}}
  IN  IF gaps = {} THEN 0 ELSE CHOOSE g \in gaps : \A h \in gaps : g >= h

(* No flow in a skip list is due later than one max_chunk at its rate     *)
(* after the current virtual time: the clamp of                           *)
(* flow_queue_activate_skiplist ("not more than if it just sent max_chunk *)
(* at the current rate") keeps holding as ts_virtual and the real clock   *)
(* move on, so a due flow is never pushed into the far future.            *)
SkiplistWithinHorizon ==
  \A a \in Apps, f \in Flows :
    INSKIPLIST \in fq[a][f].flags => RelTime(ts_virtual, fq[a][f].next_ts) <= MaxGap

(* ts_virtual never moves backwards in wraparound-relative terms (spec    *)
(* section 8, monotone virtual time), across every poll step.             *)
VirtualTimeMonotone ==
  [][RelTime(ts_virtual, ts_virtual') >= 0]_ts_virtual

(* Every qman_poll call returns (spec 4.4: poll never blocks).            *)
PollReturns == Polling ~> ~Polling

=============================================================================

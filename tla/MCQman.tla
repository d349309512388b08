------------------------------- MODULE MCQman -------------------------------
(***************************************************************************)
(* Model-checking instance of Qman.  The qman_set calls enumerated are    *)
(* the kinds the TCP fast and slow paths issue: a flow given its rate,    *)
(* chunk size and first bytes; bytes added; avail overwritten; and a rate *)
(* change alone.                                                          *)
(***************************************************************************)
EXTENDS Qman

CONSTANT AddAvails, SetAvails

Call(fl, r, v, m) == [flags |-> fl, rate |-> r, avail |-> v, max_chunk |-> m]

MCSetInputs ==
  { Call({"SET_RATE", "SET_MAXCHUNK", "ADD_AVAIL"}, r, v, m) :
      r \in Rates, v \in AddAvails, m \in MaxChunks }
  \cup { Call({"ADD_AVAIL"}, 0, v, 0) : v \in AddAvails }
  \cup { Call({"SET_AVAIL"}, 0, v, 0) : v \in SetAvails }
  \cup { Call({"SET_RATE"}, r, 0, 0) : r \in Rates }
=============================================================================

----------------------------- MODULE MCSession -----------------------------
(* One instance of Session for TLC, and beside it, while the session has not  *)
(* moved, every exchange of module Exchange.  The two share no state.         *)
EXTENDS Session, Exchange

MCInit == Init /\ ExchangeInit
MCNext ==
  \/ sample = NoSample /\ Next /\ UNCHANGED sample
  \/ Init /\ ExchangeNext /\ UNCHANGED vars
MCSpec == MCInit /\ [][MCNext]_<<vars, sample>>
=============================================================================

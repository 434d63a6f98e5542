------------------------------ MODULE FlushDue ------------------------------
(* nextScheduledFlushDue (src/sculk/protocol/connection/                      *)
(* ServerNetworkSystem.cpp:46-58): when a session is flushed next, after a    *)
(* flush that was due at previousDue and is done now.  Times in nanoseconds,  *)
(* in a clock wide enough for them (64 bits); lag is not negative where it is *)
(* divided, so \div is the division of the code.  A tick takes an entry when  *)
(* it is due (:546): previousDue is never later than now.                     *)
EXTENDS Integers

FLUSH_INTERVAL == 20000000     (* 20 milliseconds *)

NextScheduledFlushDue(previousDue, now) ==
    LET nextDue == previousDue + FLUSH_INTERVAL
        lag     == now - nextDue
        skipped == (lag \div FLUSH_INTERVAL) + 1
    IN IF nextDue > now THEN nextDue ELSE nextDue + FLUSH_INTERVAL * skipped
=============================================================================

--------------------------- MODULE MCEventFlagOnce ---------------------------
(* Both threads wait and poll for one bit that their requests clear.  Two  *)
(* history variables count the sets begun and the calls answered OK.       *)
EXTENDS MCEventFlag

VARIABLES sets, oks

Begins(kind) == \E t \in Thread : frame'[t].kind = kind /\ frame[t].kind # kind

AnsweredOk == \E t \in Thread :
    frame[t].kind \in {"poll", "wait", "timed"} /\ outcome[t] = "none" /\ outcome'[t] = "ok"

CountedNext ==
    /\ Next
    /\ sets' = IF Begins("set") \/ Begins("cancel") THEN sets + 1 ELSE sets
    /\ oks' = IF AnsweredOk THEN oks + 1 ELSE oks

CountedSpec ==
    /\ Init /\ sets = 0 /\ oks = 0
    /\ [][CountedNext]_<<vars, sets, oks>>

(* A clearing wait or poll that is answered OK has taken the bit: no set   *)
(* is handed out twice.                                                    *)
ConsumedOnce == oks <= sets
=============================================================================

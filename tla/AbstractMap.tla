----------------------------- MODULE AbstractMap -----------------------------
(***************************************************************************)
(* What a hash map promises its callers: a partial function from keys to   *)
(* values, and the answer of each call.  The map may give up (the process  *)
(* ends) only after the allocator has refused it memory.                   *)
(***************************************************************************)
CONSTANTS MapKeys, MapValues, NoValue, GaveUp

VARIABLES content, answer, starved

Missing == \A k \in MapKeys : content[k] = NoValue

PutOp(k, v) ==
    /\ content' = [content EXCEPT ![k] = v]
    /\ answer' = v

GetOrInsertOp(k, v) ==
    /\ content' = [content EXCEPT ![k] = IF @ = NoValue THEN v ELSE @]
    /\ answer' = content'[k]

EraseOp(k) ==
    /\ content' = [content EXCEPT ![k] = NoValue]
    /\ answer' = IF content[k] # NoValue THEN "erased" ELSE "absent"

GetOp(k) ==
    /\ answer' = content[k]
    /\ UNCHANGED content

GiveUpOp ==
    /\ starved'
    /\ answer' = GaveUp
    /\ UNCHANGED content

MapOps ==
    \/ \E k \in MapKeys : GetOp(k) \/ EraseOp(k)
    \/ \E k \in MapKeys, v \in MapValues : PutOp(k, v) \/ GetOrInsertOp(k, v)
    \/ GiveUpOp

MapInit == Missing /\ answer = NoValue /\ starved = FALSE
MapNext == MapOps /\ (starved => starved')
MapSpec == MapInit /\ [][MapNext]_<<content, answer, starved>>
===============================================================================

----------------------------- MODULE AbstractPool -----------------------------
(***************************************************************************)
(* What a pool of slots promises: a slot is handed to one owner at a time, *)
(* and a caller is refused only when every slot of the pool has an owner   *)
(* (or, when it asked for a kept slot, when none is kept and free).        *)
(***************************************************************************)
CONSTANTS Slots, None

VARIABLES owned, kept, handed

Take(s) ==
    /\ s \in Slots \ owned
    /\ owned' = owned \cup {s}
    /\ handed' = s
    /\ kept' \in {kept, kept \ {s}}

TakeKept(s) == s \in kept /\ Take(s) /\ kept' = kept \ {s}

Refuse == owned = Slots /\ handed' = None /\ UNCHANGED <<owned, kept>>
RefuseKept == kept \subseteq owned /\ handed' = None /\ UNCHANGED <<owned, kept>>

Give(s, keep) ==
    /\ s \in owned
    /\ owned' = owned \ {s}
    /\ kept' = IF keep THEN kept \cup {s} ELSE kept \ {s}
    /\ handed' = None

PoolInit == owned = {} /\ kept = {} /\ handed = None

PoolNext ==
    \/ RefuseKept
    \/ Refuse
    \/ \E s \in Slots : Take(s) \/ TakeKept(s)
    \/ \E s \in Slots, keep \in {TRUE, FALSE} : Give(s, keep)

PoolSpec == PoolInit /\ [][PoolNext]_<<owned, kept, handed>>
===============================================================================

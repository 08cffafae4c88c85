---------------------------- MODULE RecordStore ----------------------------
(***************************************************************************)
(* What the store of sessions promises to the programs that use it: a map  *)
(* from names to records, each replaced or removed as a whole.  A power    *)
(* loss may take back changes the disk had not kept yet, and nothing else. *)
(***************************************************************************)
CONSTANTS
    Id,        \* names of records
    Val,       \* the records
    NoRecord   \* the name is free: none of the records

VARIABLES
    now,   \* what a reader finds
    safe   \* what a power loss would leave

recordVars == <<now, safe>>

RecordsInit ==
    /\ now = [i \in Id |-> NoRecord]
    /\ safe = now

Put(i, v) ==
    /\ now' = [now EXCEPT ![i] = v]
    /\ UNCHANGED safe

Remove(i) == Put(i, NoRecord)

(* The disk catches up with one name. *)
Keep(i) ==
    /\ safe' = [safe EXCEPT ![i] = now[i]]
    /\ UNCHANGED now

PowerLoss ==
    /\ now' = safe
    /\ UNCHANGED safe

RecordsNext ==
    \/ \E i \in Id : (\E v \in Val : Put(i, v)) \/ Remove(i) \/ Keep(i)
    \/ PowerLoss

RecordsSpec == RecordsInit /\ [][RecordsNext]_recordVars
=============================================================================

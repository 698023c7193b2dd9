----------------------------- MODULE VisitStore -----------------------------
(***************************************************************************)
(* What Vidar promises about a visit, with everything about months, zips,  *)
(* pins and transactions abstracted away: a visit that was once committed  *)
(* is held -- in the database or in a monthly archive -- until somebody    *)
(* gives it up, by deleting its month, deleting the archive that is its    *)
(* only copy, or letting the archive keep window expire it.                *)
(***************************************************************************)

CONSTANT Visit

VARIABLES held,   \* visits some copy of which the service still keeps
          given   \* visits given up on purpose

storeVars == <<held, given>>

StoreTypeOK == held \subseteq Visit /\ given \subseteq Visit

StoreInit == held = {} /\ given = {}

\* The log tailer commits a batch holding v.
Record(v) ==
    /\ v \notin held \cup given
    /\ held' = held \cup {v}
    /\ UNCHANGED given

\* The operator, or the keep window the operator set, drops S.
GiveUp(S) ==
    /\ S \subseteq held
    /\ held' = held \ S
    /\ given' = given \cup S

\* A file that still holds given-up visits is imported again.
TakeBack(S) ==
    /\ S \subseteq given
    /\ given' = given \ S
    /\ held' = held \cup S

StoreNext ==
    \/ \E v \in Visit : Record(v)
    \/ \E S \in SUBSET Visit : GiveUp(S) \/ TakeBack(S)

StoreSpec == StoreInit /\ [][StoreNext]_storeVars

=============================================================================

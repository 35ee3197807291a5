------------------------------ MODULE SaveById ------------------------------
(***************************************************************************)
(* Repository.save of TypeORM, for an entity that was read before, of      *)
(* which one column has been changed: a SELECT by id, then an INSERT when  *)
(* there is no row, an UPDATE when the column differs, and else nothing.   *)
(*                                                                         *)
(*   save -> (insert | write) -> saved | broken | error                    *)
(*                                                                         *)
(* The UPDATE or INSERT is the only statement of save's transaction that   *)
(* writes, so it and the COMMIT are one step.                              *)
(***************************************************************************)
CONSTANT Absent  \* the state of a row that is not there

VARIABLES
  table,   \* per id: the column, or Absent
  pc,      \* per request: its next statement, or its answer
  target,  \* per request: the id of its entity
  entity   \* per request: the column as the entity has it

IsHere(r) == target[r] \in DOMAIN table
Goto(r, label) == pc' = [pc EXCEPT ![r] = label]

\* A statement that writes: its acknowledgement may be lost.
Put(r) ==
  /\ table' = [table EXCEPT ![target[r]] = entity[r]]
  /\ \E answer \in {"saved", "error"} : Goto(r, answer)
  /\ UNCHANGED <<target, entity>>

\* The SELECT by id, and what to do about its result.
Compare(r) ==
  /\ pc[r] = "save" /\ IsHere(r)
  /\ \/ table[target[r]] = Absent /\ Goto(r, "insert")
     \/ table[target[r]] = entity[r] /\ Goto(r, "saved")
     \/ table[target[r]] \notin {Absent, entity[r]} /\ Goto(r, "write")
  /\ UNCHANGED <<table, target, entity>>

\* UPDATE ... WHERE id: a row that is gone by now is not an error.
Write(r) ==
  /\ pc[r] = "write" /\ IsHere(r)
  /\ \/ table[target[r]] # Absent /\ Put(r)
     \/ /\ table[target[r]] = Absent
        /\ Goto(r, "saved")
        /\ UNCHANGED <<table, target, entity>>

\* INSERT with the id of the entity, which the primary key may refuse.
Insert(r) ==
  /\ pc[r] = "insert" /\ IsHere(r)
  /\ \/ table[target[r]] = Absent /\ Put(r)
     \/ /\ table[target[r]] # Absent
        /\ Goto(r, "broken")
        /\ UNCHANGED <<table, target, entity>>

Save(r) == Compare(r) \/ Write(r) \/ Insert(r)
=============================================================================

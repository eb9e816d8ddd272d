------------------------- MODULE PolicyAuditProofs -------------------------
(***************************************************************************)
(* Proofs about the audit log, the refusals and the space alarm of the     *)
(* policy layer, on top of PolicyInv.                                      *)
(***************************************************************************)
EXTENDS PolicyProofs

(***************************************************************************)
(* The inductive invariants.                                               *)
(***************************************************************************)

\* A request that has ended left one record, of what it answered and the ids its entry
\* names; one that has not ended left none.
RecordedAt(r) ==
  audit[r] = IF Answered(r)
             THEN <<[outcome |-> reply[r].outcome, ids |-> ids[r], count |-> reply[r].count]>>
             ELSE <<>>

\* What the position of a request says of its call and the ids its entry names.
PositionAt(r) ==
  /\ pc[r] \in {"read", "update", "delete"} => ids[r] = {call[r].id}
  /\ pc[r] = "readback" => call[r].op = "add"
  /\ pc[r] \in Awaiting \ {"read", "readback"} => call[r].op = pc[r]

\* Only a fault leaves a write on its way; a refusal has written nothing; and the entry
\* names what an add, update or delete wrote, from the write to the answer.
AccountAt(r) ==
  /\ late[r] # "none" => reply[r].outcome \in FaultKinds
  /\ Answered(r) /\ reply[r].outcome \in Refusals => wrote[r] = {}
  /\ pc[r] = "readback" => wrote[r] \subseteq ids[r]
  /\ /\ Answered(r)
     /\ reply[r].outcome \notin FaultKinds
     /\ call[r].op \in {"add", "update", "delete"}
     => wrote[r] \subseteq ids[r]

AuditInv ==
  /\ PolicyInv
  /\ \A r \in Requests : RecordedAt(r) /\ PositionAt(r) /\ AccountAt(r)

\* A step of r leaves the records of the others alone.
AuditElsewhere(r) ==
  \A q \in Requests \ {r} :
    audit'[q] = audit[q] /\ ids'[q] = ids[q] /\ todo'[q] = todo[q] /\ alarm'[q] = alarm[q]

\* What every action of a request establishes, beside RequestStep.
AuditStep(r) ==
  /\ AuditElsewhere(r)
  /\ RecordedAt(r)' /\ PositionAt(r)' /\ AccountAt(r)'

(***************************************************************************)
(* Each action is an AuditStep.                                            *)
(***************************************************************************)

\* The only codes of policy's own are no faults.
LEMMA RefusalsNoFaults == Refusals \cap FaultKinds = {} /\ "ok" \notin Refusals
BY DEF Refusals, FaultKinds

\* A request that has not ended is answered: its record says what its reply says.
LEMMA AnswerRecorded ==
  ASSUME AuditInv, NEW r \in Requests, pc[r] # "done", NEW rep, NEW named,
         Answer(r, rep, named), ids'[r] = named, late'[r] = "none" \/ rep.outcome \in FaultKinds,
         rep.outcome \in Refusals => wrote'[r] = {},
         rep.outcome \notin FaultKinds /\ call'[r].op \in {"add", "update", "delete"}
           => wrote'[r] \subseteq named
  PROVE  /\ RecordedAt(r)' /\ PositionAt(r)' /\ AccountAt(r)'
         /\ \A q \in Requests \ {r} : audit'[q] = audit[q]
<1>1. PolicyTypeOK /\ RecordedAt(r) BY DEF AuditInv, PolicyInv
<1>2. audit[r] = <<>> BY <1>1 DEF RecordedAt, Answered
<1>3. pc'[r] = "done" /\ reply'[r] = rep BY <1>1 DEF Answer, PolicyTypeOK
<1>4. audit'[r] = <<[outcome |-> rep.outcome, ids |-> named, count |-> rep.count]>>
  BY <1>1, <1>2 DEF Answer, PolicyTypeOK
<1>5. \A q \in Requests \ {r} : audit'[q] = audit[q] BY <1>1 DEF Answer, PolicyTypeOK
<1>6. "done" \notin Awaiting BY DEF Awaiting
<1> QED BY <1>3, <1>4, <1>5, <1>6 DEF RecordedAt, PositionAt, AccountAt, Answered

\* An answer to a call that wrote nothing.
LEMMA QuietRecorded ==
  ASSUME AuditInv, NEW r \in Requests, pc[r] \in Awaiting, pc[r] # "readback", NEW rep,
         Answer(r, rep, ids[r]),
         UNCHANGED <<call, todo, ids, late, wrote>>,
         \A q \in Requests \ {r} : alarm'[q] = alarm[q]
  PROVE  AuditStep(r)
<1>1. ControlAt(r) BY DEF AuditInv, PolicyInv
<1>2. pc[r] # "done" BY DEF Awaiting
<1>3. late[r] = "none" /\ wrote[r] = {} BY <1>1, <1>2 DEF ControlAt
<1> QED BY <1>2, <1>3, AnswerRecorded DEF AuditStep, AuditElsewhere

\* check_space refuses a memory of a call that wrote nothing.
LEMMA AlarmRecorded ==
  ASSUME AuditInv, NEW r \in Requests, pc[r] \in Awaiting, pc[r] # "readback", NEW i,
         Alarm(r, i), UNCHANGED <<call, todo, ids, late, wrote>>
  PROVE  AuditStep(r)
<1>1. \A q \in Requests \ {r} : alarm'[q] = alarm[q]
  BY DEF Alarm, AuditInv, PolicyInv, PolicyTypeOK
<1> QED BY <1>1, QuietRecorded DEF Alarm

\* The calls that only read end with a record and leave nothing behind.
LEMMA QuietAudit ==
  ASSUME AuditInv, NEW r \in Requests,
         \/ ReadMissing(r) \/ ReadForeign(r) \/ ReadShown(r) \/ ReadOverCap(r)
         \/ GoneReply(r) \/ ScanReply(r) \/ ScanForeign(r) \/ BadCursor(r)
         \/ HistoryReply(r) \/ EntitiesReply(r)
  PROVE  AuditStep(r)
<1>1. pc[r] \in Awaiting /\ pc[r] # "readback"
  BY DEF ReadMissing, ReadForeign, ReadShown, ReadOverCap, Readable, GoneReply, ScanReply,
         ScanForeign, Scanning, BadCursor, HistoryReply, EntitiesReply, Awaiting
<1>2. CASE ReadMissing(r) BY <1>1, <1>2, QuietRecorded DEF ReadMissing
<1>3. CASE ReadForeign(r) BY <1>1, <1>3, AlarmRecorded DEF ReadForeign
<1>4. CASE ReadShown(r) BY <1>1, <1>4, QuietRecorded DEF ReadShown
<1>5. CASE ReadOverCap(r) BY <1>1, <1>5, QuietRecorded DEF ReadOverCap
<1>6. CASE GoneReply(r) BY <1>1, <1>6, QuietRecorded DEF GoneReply
<1>7. CASE ScanReply(r) BY <1>1, <1>7, QuietRecorded DEF ScanReply
<1>8. CASE ScanForeign(r) BY <1>1, <1>8, AlarmRecorded DEF ScanForeign
<1>9. CASE BadCursor(r) BY <1>1, <1>9, QuietRecorded DEF BadCursor
<1>10. CASE HistoryReply(r) BY <1>1, <1>10, QuietRecorded DEF HistoryReply
<1>11. CASE EntitiesReply(r)
  <2>1. PICK rows :
          Answer(r, Result(Nothing, <<>>, rows, Cardinality(rows)), ids[r])
    BY <1>11 DEF EntitiesReply
  <2> QED BY <1>1, <1>11, <2>1, QuietRecorded DEF EntitiesReply
<1> QED BY <1>2, <1>3, <1>4, <1>5, <1>6, <1>7, <1>8, <1>9, <1>10, <1>11

\* The read that goes on to the call's own operation.
LEMMA ReadOnAudit ==
  ASSUME AuditInv, NEW r \in Requests, ReadOn(r)
  PROVE  AuditStep(r)
<1>1. PolicyTypeOK /\ ControlAt(r) /\ RecordedAt(r) /\ PositionAt(r) /\ AccountAt(r)
  BY DEF AuditInv, PolicyInv
<1>2. /\ pc[r] = "read" /\ call[r].op # "get"
      /\ pc' = [pc EXCEPT ![r] = call[r].op]
      /\ UNCHANGED <<call, todo, ids, late, reply, audit, alarm, wrote>>
  BY DEF ReadOn, Readable
<1>3. call[r].op \in {"update", "delete", "history"} /\ late[r] = "none"
  BY <1>1, <1>2 DEF ControlAt, ByIdOps
<1>4. pc'[r] = call[r].op BY <1>1, <1>2 DEF PolicyTypeOK
<1>5. RecordedAt(r)' BY <1>1, <1>2, <1>3, <1>4 DEF RecordedAt, Answered
<1>6. PositionAt(r)' BY <1>1, <1>2, <1>3, <1>4 DEF PositionAt
<1>7. AccountAt(r)' BY <1>1, <1>2, <1>3, <1>4 DEF AccountAt, Answered
<1> QED BY <1>2, <1>5, <1>6, <1>7 DEF AuditStep, AuditElsewhere

\* An add's entry names every memory its write stored, changed or removed.
LEMMA AddAudit ==
  ASSUME AuditInv, NEW r \in Requests, AddReply(r)
  PROVE  AuditStep(r)
<1>1. PolicyTypeOK /\ ControlAt(r) /\ RecordedAt(r) BY DEF AuditInv, PolicyInv
<1>2. pc[r] = "add" BY DEF AddReply
<1>3. PICK x \in Extractions(r) :
        /\ AddWrite(r, x)
        /\ ids' = [ids EXCEPT ![r] = ItemIds(x)]
        /\ todo' = [todo EXCEPT ![r] = ReadBackIds(x)]
        /\ \/ Answer(r, Bare("ok"), ItemIds(x))
           \/ /\ pc' = [pc EXCEPT ![r] = "readback"]
              /\ UNCHANGED <<reply, audit>>
  BY DEF AddReply
<1>4. UNCHANGED <<call, late, alarm>> BY DEF AddReply
<1>5. /\ late[r] = "none" /\ wrote[r] = {} /\ call[r].op = "add"
  <2>1. "add" \in Awaiting \ {"read", "readback"} BY DEF Awaiting
  <2> QED BY <1>1, <1>2, <2>1 DEF ControlAt, AuditInv, PositionAt
<1>6. Wrote(r, ItemIds(x))
  <2>1. ItemIds(x) = (IF x.fresh THEN {created + 1} ELSE {}) \cup x.changed \cup x.removed
    BY DEF ItemIds, ReadBackIds
  <2> QED BY <1>3, <2>1 DEF AddWrite
<1>7. ids'[r] = ItemIds(x) /\ wrote'[r] = ItemIds(x)
  BY <1>1, <1>3, <1>5, <1>6 DEF Wrote, PolicyTypeOK
<1>8. \A q \in Requests \ {r} : ids'[q] = ids[q] /\ todo'[q] = todo[q] /\ alarm'[q] = alarm[q]
  BY <1>1, <1>3, <1>4 DEF PolicyTypeOK
<1>9. CASE Answer(r, Bare("ok"), ItemIds(x))
  <2>1. Bare("ok").outcome = "ok" BY DEF Bare
  <2>2. /\ RecordedAt(r)' /\ PositionAt(r)' /\ AccountAt(r)'
        /\ \A q \in Requests \ {r} : audit'[q] = audit[q]
    BY <1>2, <1>4, <1>5, <1>7, <1>9, <2>1, RefusalsNoFaults, AnswerRecorded
  <2> QED BY <1>8, <2>2 DEF AuditStep, AuditElsewhere
<1>10. CASE pc' = [pc EXCEPT ![r] = "readback"] /\ UNCHANGED <<reply, audit>>
  <2>1. pc'[r] = "readback" BY <1>1, <1>10 DEF PolicyTypeOK
  <2>2. RecordedAt(r)' BY <1>1, <1>2, <1>10, <2>1 DEF RecordedAt, Answered
  <2>3. PositionAt(r)' /\ AccountAt(r)'
    BY <1>4, <1>5, <1>7, <2>1 DEF PositionAt, AccountAt, Answered
  <2> QED BY <1>8, <1>10, <2>2, <2>3 DEF AuditStep, AuditElsewhere
<1> QED BY <1>3, <1>9, <1>10

\* Reading back changes nothing the entry names.
LEMMA ReadBackAudit ==
  ASSUME AuditInv, NEW r \in Requests, ReadBack(r) \/ ReadBackFails(r)
  PROVE  AuditStep(r)
<1>1. /\ PolicyTypeOK /\ ControlAt(r) /\ RecordedAt(r) /\ PositionAt(r) /\ AccountAt(r)
  BY DEF AuditInv, PolicyInv
<1>2. pc[r] = "readback" /\ UNCHANGED <<call, ids, late, wrote>>
  BY DEF ReadBack, ReadBackFails
<1>3. /\ \A q \in Requests \ {r} : todo'[q] = todo[q] /\ alarm'[q] = alarm[q]
  BY <1>1 DEF ReadBack, ReadBackFails, Alarm, PolicyTypeOK
<1>4. PICK o \in {"ok", "internal_error"} :
        Answer(r, Bare(o), ids[r]) \/ UNCHANGED <<pc, reply, audit>>
  BY DEF ReadBack, ReadBackFails, Alarm
<1>5. late[r] = "none" /\ wrote[r] \subseteq ids[r]
  BY <1>1, <1>2 DEF ControlAt, AccountAt
<1>6. CASE Answer(r, Bare(o), ids[r])
  <2>1. Bare(o).outcome = o /\ o \notin Refusals BY DEF Bare, Refusals
  <2>2. /\ RecordedAt(r)' /\ PositionAt(r)' /\ AccountAt(r)'
        /\ \A q \in Requests \ {r} : audit'[q] = audit[q]
    BY <1>2, <1>5, <1>6, <2>1, AnswerRecorded
  <2> QED BY <1>2, <1>3, <2>2 DEF AuditStep, AuditElsewhere
<1>7. CASE UNCHANGED <<pc, reply, audit>>
  BY <1>1, <1>2, <1>3, <1>7 DEF AuditStep, AuditElsewhere, RecordedAt, PositionAt, AccountAt,
     Answered
<1> QED BY <1>4, <1>6, <1>7

\* An update or delete writes the one memory its entry names from the start.
LEMMA ByIdWriteAudit ==
  ASSUME AuditInv, NEW r \in Requests, UpdateReply(r) \/ DeleteReply(r)
  PROVE  AuditStep(r)
<1>1. PolicyTypeOK /\ ControlAt(r) /\ PositionAt(r) BY DEF AuditInv, PolicyInv
<1>2. /\ pc[r] \in {"update", "delete"}
      /\ UNCHANGED <<call, todo, ids, late>>
      /\ Wrote(r, {call[r].id})
  BY DEF UpdateReply, DeleteReply, UpdateWrite, DeleteWrite
<1>3. /\ pc[r] # "done" /\ late[r] = "none" /\ wrote[r] = {} /\ ids[r] = {call[r].id}
  BY <1>1, <1>2 DEF ControlAt, PositionAt
<1>4. wrote'[r] = {call[r].id} BY <1>1, <1>2, <1>3 DEF Wrote, PolicyTypeOK
<1>5. \A q \in Requests \ {r} : alarm'[q] = alarm[q]
  BY <1>1 DEF UpdateReply, DeleteReply, Alarm, PolicyTypeOK
<1>6. PICK rep : Answer(r, rep, ids[r]) /\ rep.outcome \in {"ok", "internal_error"}
  <2>1. CASE DeleteReply(r) BY <2>1 DEF DeleteReply, Bare
  <2>2. CASE UpdateReply(r) BY <2>2 DEF UpdateReply, Alarm, Bare, Result
  <2> QED BY <2>1, <2>2
<1>7. rep.outcome \notin Refusals BY <1>6 DEF Refusals
<1> QED BY <1>2, <1>3, <1>4, <1>5, <1>6, <1>7, AnswerRecorded DEF AuditStep, AuditElsewhere

\* delete_all's entry names no ids, and claims none.
LEMMA DeleteAllAudit ==
  ASSUME AuditInv, NEW r \in Requests, DeleteAllReply(r)
  PROVE  AuditStep(r)
<1>1. ControlAt(r) /\ PositionAt(r) BY DEF AuditInv, PolicyInv
<1>2. pc[r] = "delete_all" /\ UNCHANGED <<call, todo, ids, late, alarm>> BY DEF DeleteAllReply
<1>3. call[r].op = "delete_all" /\ late[r] = "none"
  BY <1>1, <1>2 DEF ControlAt, PositionAt, Awaiting
<1>4. PICK rep : Answer(r, rep, ids[r]) /\ rep.outcome = "ok"
  BY DEF DeleteAllReply, Result
<1> QED BY <1>2, <1>3, <1>4, RefusalsNoFaults, AnswerRecorded DEF AuditStep, AuditElsewhere

\* A request that is refused has written nothing, and its entry names its argument.
LEMMA StartAudit ==
  ASSUME AuditInv, NEW r \in Requests, Start(r)
  PROVE  AuditStep(r)
<1>1. PolicyTypeOK /\ ControlAt(r) /\ RecordedAt(r) BY DEF AuditInv, PolicyInv
<1>2. PICK key \in Keys \cup {None}, c \in Calls :
        LET named == IF c.op \in ByIdOps /\ c.id # None THEN {c.id} ELSE {}
        IN /\ pc[r] = "idle"
           /\ call' = [call EXCEPT ![r] = c]
           /\ ids' = [ids EXCEPT ![r] = named]
           /\ \/ Answer(r, Bare(Verdict(key, c)), named)
              \/ /\ Verdict(key, c) = "ok"
                 /\ pc' = [pc EXCEPT ![r] = IF c.op \in ByIdOps THEN "read" ELSE c.op]
                 /\ UNCHANGED <<reply, audit>>
           /\ UNCHANGED <<todo, late, alarm, wrote>>
  BY DEF Start
<1> DEFINE named == IF c.op \in ByIdOps /\ c.id # None THEN {c.id} ELSE {}
<1>3. late[r] = "none" /\ wrote[r] = {} BY <1>1, <1>2 DEF ControlAt
<1>4. /\ call'[r] = c /\ ids'[r] = named /\ late'[r] = "none" /\ wrote'[r] = {}
      /\ \A q \in Requests \ {r} : ids'[q] = ids[q] /\ todo'[q] = todo[q] /\ alarm'[q] = alarm[q]
  BY <1>1, <1>2, <1>3 DEF PolicyTypeOK
<1>5. CASE Answer(r, Bare(Verdict(key, c)), named)
  <2>1. /\ RecordedAt(r)' /\ PositionAt(r)' /\ AccountAt(r)'
        /\ \A q \in Requests \ {r} : audit'[q] = audit[q]
    BY <1>2, <1>4, <1>5, AnswerRecorded
  <2> QED BY <1>4, <2>1 DEF AuditStep, AuditElsewhere
<1>6. CASE /\ Verdict(key, c) = "ok"
           /\ pc' = [pc EXCEPT ![r] = IF c.op \in ByIdOps THEN "read" ELSE c.op]
           /\ UNCHANGED <<reply, audit>>
  <2>1. c.op \in ByIdOps => c.id \in Ids BY <1>6, VerdictType
  <2>2. None \notin Ids BY PolicyConstants DEF Ids
  <2>3. pc'[r] = IF c.op \in ByIdOps THEN "read" ELSE c.op BY <1>1, <1>6 DEF PolicyTypeOK
  <2>4. c.op \in Ops BY CallsAssumption DEF Call
  <2>5. pc'[r] \notin {"done", "readback", "idle"}
    BY <2>3, <2>4 DEF Ops, ByIdOps, WriterOps
  <2>6. RecordedAt(r)' BY <1>1, <1>2, <1>6, <2>5 DEF RecordedAt, Answered
  <2>7. PositionAt(r)'
    <3>1. CASE c.op \in ByIdOps
      <4>1. pc'[r] = "read" /\ ids'[r] = {c.id} BY <1>4, <2>1, <2>2, <2>3, <3>1
      <4> QED BY <1>4, <4>1 DEF PositionAt
    <3>2. CASE c.op \notin ByIdOps
      <4>1. pc'[r] = c.op /\ c.op \notin {"read", "update", "delete"}
        BY <2>3, <2>4, <3>2 DEF Ops, ByIdOps, WriterOps
      <4> QED BY <1>4, <2>5, <4>1 DEF PositionAt
    <3> QED BY <3>1, <3>2
  <2>8. AccountAt(r)' BY <1>4, <2>5 DEF AccountAt, Answered
  <2> QED BY <1>4, <1>6, <2>6, <2>7, <2>8 DEF AuditStep, AuditElsewhere
<1> QED BY <1>2, <1>5, <1>6

\* A call that failed, timed out or was cancelled is recorded as that.
LEMMA FaultAudit ==
  ASSUME AuditInv, NEW r \in Requests, Fault(r)
  PROVE  AuditStep(r)
<1>1. PolicyTypeOK BY DEF AuditInv, PolicyInv
<1>2. PICK f \in Faults :
        /\ pc[r] \in Awaiting
        /\ Answer(r, Bare(f), ids[r])
        /\ UNCHANGED <<call, todo, ids, alarm, wrote>>
  BY DEF Fault
<1>3. Bare(f).outcome = f /\ f \in FaultKinds /\ f \notin Refusals /\ pc[r] # "done"
  BY <1>2, PolicyConstants, RefusalsNoFaults DEF Bare, Awaiting
<1> QED BY <1>2, <1>3, AnswerRecorded DEF AuditStep, AuditElsewhere

\* A late write belongs to a request whose fault is recorded.
LEMMA LateAudit ==
  ASSUME AuditInv, NEW r \in Requests, LateWrite(r)
  PROVE  AuditStep(r)
<1>1. /\ PolicyTypeOK /\ ControlAt(r) /\ RecordedAt(r) /\ PositionAt(r) /\ AccountAt(r)
  BY DEF AuditInv, PolicyInv
<1>2. /\ late[r] # "none" /\ late' = [late EXCEPT ![r] = "none"]
      /\ UNCHANGED <<pc, call, todo, ids, reply, audit, alarm>>
  BY DEF LateWrite
<1>3. pc[r] = "done" /\ reply[r].outcome \in FaultKinds /\ late'[r] = "none"
  BY <1>1, <1>2 DEF ControlAt, AccountAt, PolicyTypeOK
<1>4. AccountAt(r)' BY <1>2, <1>3, RefusalsNoFaults DEF AccountAt, Answered
<1> QED BY <1>1, <1>2, <1>4 DEF AuditStep, AuditElsewhere, RecordedAt, PositionAt, Answered

(***************************************************************************)
(* The specification keeps the audit invariant.                            *)
(***************************************************************************)

\* Every step of a request is an AuditStep.
LEMMA AuditStepOf ==
  ASSUME AuditInv, NEW r \in Requests, Start(r) \/ Proceed(r) \/ Fault(r) \/ LateWrite(r)
  PROVE  AuditStep(r)
<1>1. CASE Start(r) BY <1>1, StartAudit
<1>2. CASE Proceed(r)
  BY <1>2, QuietAudit, ReadOnAudit, AddAudit, ReadBackAudit, ByIdWriteAudit, DeleteAllAudit
     DEF Proceed
<1>3. CASE Fault(r) BY <1>3, FaultAudit
<1>4. CASE LateWrite(r) BY <1>4, LateAudit
<1> QED BY <1>1, <1>2, <1>3, <1>4

\* A step of r keeps what the invariant says of every other request.
LEMMA AuditOtherKept ==
  ASSUME AuditInv, NEW r \in Requests, Elsewhere(r), AuditElsewhere(r),
         NEW q \in Requests \ {r}
  PROVE  RecordedAt(q)' /\ PositionAt(q)' /\ AccountAt(q)'
<1>1. RecordedAt(q) /\ PositionAt(q) /\ AccountAt(q) BY DEF AuditInv
<1>2. /\ pc'[q] = pc[q] /\ call'[q] = call[q] /\ late'[q] = late[q] /\ reply'[q] = reply[q]
      /\ wrote'[q] = wrote[q] /\ audit'[q] = audit[q] /\ ids'[q] = ids[q]
  BY DEF Elsewhere, Unmoved, AuditElsewhere
<1> QED BY <1>1, <1>2 DEF RecordedAt, PositionAt, AccountAt, Answered

\* The audit invariant holds in every behaviour of the policy layer.
THEOREM AuditInvCorrect == PolicySpec => []AuditInv
<1>1. PolicyInit => AuditInv
  <2> SUFFICES ASSUME PolicyInit PROVE AuditInv OBVIOUS
  <2>1. PolicyInv BY InitInv
  <2>2. ASSUME NEW r \in Requests PROVE RecordedAt(r) /\ PositionAt(r) /\ AccountAt(r)
    <3>1. pc[r] = "idle" /\ late[r] = "none" /\ audit[r] = <<>> BY DEF PolicyInit
    <3> QED BY <3>1 DEF RecordedAt, PositionAt, AccountAt, Answered, Awaiting
  <2> QED BY <2>1, <2>2 DEF AuditInv
<1>2. AuditInv /\ [PolicyNext]_vars => AuditInv'
  <2> SUFFICES ASSUME AuditInv, [PolicyNext]_vars PROVE AuditInv' OBVIOUS
  <2>1. PolicyInv BY DEF AuditInv
  <2>2. CASE PolicyNext
    <3>1. PICK r \in Requests : Start(r) \/ Proceed(r) \/ Fault(r) \/ LateWrite(r)
      BY <2>2 DEF PolicyNext
    <3>2. RequestStep(r) /\ AuditStep(r) BY <2>1, <3>1, RequestStepOf, AuditStepOf
    <3>3. PolicyInv' /\ Elsewhere(r) BY <2>1, <3>2, RequestKeepsInv DEF RequestStep
    <3>4. ASSUME NEW q \in Requests PROVE (RecordedAt(q) /\ PositionAt(q) /\ AccountAt(q))'
      <4>1. CASE q = r BY <3>2, <4>1 DEF AuditStep
      <4>2. CASE q # r BY <3>2, <3>3, <4>2, AuditOtherKept DEF AuditStep
      <4> QED BY <4>1, <4>2
    <3> QED BY <3>3, <3>4 DEF AuditInv
  <2>3. CASE UNCHANGED vars
    <3>1. PolicyInv' BY <2>1, <2>3, StutterKeepsInv
    <3>2. UNCHANGED <<pc, call, ids, late, reply, audit, wrote>>
      BY <2>3 DEF vars, requestVars
    <3> QED BY <3>1, <3>2 DEF AuditInv, RecordedAt, PositionAt, AccountAt, Answered
  <2> QED BY <2>2, <2>3
<1> QED BY <1>1, <1>2, PTL DEF PolicySpec

\* The record of a request that has ended.
LEMMA RecordOf ==
  ASSUME AuditInv, NEW r \in Requests, Answered(r)
  PROVE  /\ Len(audit[r]) = 1
         /\ audit[r][1].outcome = reply[r].outcome
         /\ audit[r][1].ids = ids[r]
         /\ audit[r][1].count = reply[r].count
<1> DEFINE entry == [outcome |-> reply[r].outcome, ids |-> ids[r], count |-> reply[r].count]
<1>1. audit[r] = <<entry>> BY DEF AuditInv, RecordedAt
<1>2. entry.outcome = reply[r].outcome /\ entry.ids = ids[r] /\ entry.count = reply[r].count
  OBVIOUS
<1> HIDE DEF entry
<1>3. Len(audit[r]) = 1 /\ audit[r][1] = entry BY <1>1
<1> QED BY <1>2, <1>3

\* Each operation leaves exactly one record with the outcome and count its client got,
\* and none before it ends (audit.py 88-110).
THEOREM AuditedOnceCorrect == PolicySpec => []AuditedOnce
<1>1. AuditInv => AuditedOnce
  <2> SUFFICES ASSUME AuditInv, NEW r \in Requests
               PROVE  IF Answered(r)
                      THEN /\ Len(audit[r]) = 1
                           /\ audit[r][1].outcome = reply[r].outcome
                           /\ audit[r][1].count = reply[r].count
                      ELSE audit[r] = <<>>
    BY DEF AuditedOnce
  <2> QED BY RecordOf DEF AuditInv, RecordedAt
<1> QED BY <1>1, AuditInvCorrect, PTL

\* A request refused with one of policy's own codes changed nothing, then or later.
THEOREM RefusalsWriteNothingCorrect == PolicySpec => []RefusalsWriteNothing
<1>1. AuditInv => RefusalsWriteNothing
  BY RefusalsNoFaults DEF AuditInv, AccountAt, RefusalsWriteNothing
<1> QED BY <1>1, AuditInvCorrect, PTL

\* The record of an add, update or delete that was not interrupted names every memory
\* it changed (policy/__init__.py 171, 229, 258).
THEOREM AuditNamesWritesCorrect == PolicySpec => []AuditNamesWrites
<1>1. AuditInv => AuditNamesWrites
  BY RecordOf DEF AuditInv, AccountAt, AuditNamesWrites
<1> QED BY <1>1, AuditInvCorrect, PTL

(***************************************************************************)
(* On a backend that keeps partitions apart, over memories that belong     *)
(* where they are stored: the alarm means a memory is gone, and another    *)
(* space's memory looks missing.                                           *)
(***************************************************************************)

\* What the store held at startup records no other space than its partition; memories
\* older than the system fields record none.
PreloadHome ==
  \A q \in Preload : \A n \in 1..Len(q) : q[n].system.space \in {None, q[n].partition}

\* So does every memory since.
HomeInv == \A i \in Ids : store[i] # None => store[i].system.space \in {None, store[i].partition}

\* Memory i is gone for good, by another request's doing.
LostTo(r, i) ==
  /\ i <= created
  /\ store[i] = None
  /\ \E other \in Requests \ {r} : i \in wrote[other]

\* A memory still to be read back is where the add put it, or gone for good; only one
\* that is gone raises the alarm, which ends the request.
GoneAt(r) ==
  /\ pc[r] # "done" => alarm[r] = {}
  /\ \A i \in alarm[r] : call[r].op = "add" /\ LostTo(r, i)
  /\ pc[r] = "readback" =>
       \A i \in todo[r] :
         \/ LostTo(r, i)
         \/ i <= created /\ store[i] # None /\ store[i].partition = Space(r)

\* The memory a request names is its own space's, or gone for good.
OwnId(r) ==
  /\ call[r].id \in Ids
  /\ call[r].id <= created
  /\ store[call[r].id] # None => store[call[r].id].partition = Space(r)

\* A by-id request answered anything but a fault or "not_found" named its own memory.
FoundAt(r) ==
  /\ Answered(r)
  /\ Verdict(caller[r], call[r]) = "ok"
  /\ call[r].op \in ByIdOps
  /\ reply[r].outcome \notin FaultKinds \cup {"not_found"}
  => OwnId(r)

IsolatedInv ==
  /\ AuditInv
  /\ HomeInv
  /\ \A r \in Requests : GoneAt(r) /\ FoundAt(r)

\* What every action of a request establishes, beside RequestStep and AuditStep.
IsolatedStep(r) ==
  /\ HomeInv'
  /\ wrote[r] \subseteq wrote'[r]
  /\ GoneAt(r)' /\ FoundAt(r)'

\* A write only adds to what a request is recorded to have written.
LEMMA WroteGrows ==
  ASSUME PolicyInv, NEW r \in Requests, NEW S, Wrote(r, S)
  PROVE  wrote[r] \subseteq wrote'[r]
BY DEF Wrote, PolicyInv, PolicyTypeOK

\* A removal leaves every memory that stays where it belongs.
LEMMA RemoveHome ==
  ASSUME HomeInv, NEW D, RemoveEffect(D)
  PROVE  HomeInv'
BY DEF HomeInv, RemoveEffect

\* An update writes a memory of its caller's space, and stamps that space on it: the
\* check of what it returns passes.
LEMMA UpdateHome ==
  ASSUME PolicyInv, HomeInv, NEW r \in Requests, HasSent(r, "update"), UpdateWrite(r)
  PROVE  HomeInv' /\ InSpace(store'[call[r].id], Space(r))
<1> DEFINE i == call[r].id
           sys == SystemFor(Space(r), caller[r].name, seen[r].system.created_by)
           m == Rewritten(store[i], call[r].content, call[r].metadata, sys)
<1>1. TypeOK /\ ControlAt(r) /\ HeldAt(r) BY DEF PolicyInv, PolicyTypeOK
<1>2. i \in Ids /\ seen[r] \in Memory BY <1>1 DEF ControlAt, Holds
<1>3. store[i] # None BY VisibleStored DEF UpdateWrite
<1>4. store[i].partition = Space(r) BY <1>1, <1>3 DEF HeldAt, Holds, Space
<1>5. call[r] \in Call /\ Space(r) \in Spaces /\ caller[r].name \in Names
  BY SentFacts DEF WriterOps
<1>6. sys \in System /\ sys # None /\ sys.space = Space(r)
  <2>1. seen[r].system.created_by \in Names \cup {None} BY <1>2 DEF Memory, System
  <2>2. sys \in System BY <2>1, <1>5 DEF SystemFor, System
  <2> QED BY <2>2, NoneAssumption DEF SystemFor
<1>7. call[r].content \in Contents \cup {None} /\ call[r].metadata \in Patch
  BY <1>5 DEF Call
<1>8. store[i] \in Memory BY <1>1, <1>2, <1>3 DEF TypeOK
<1>9. UpdateEffect(i, call[r].content, call[r].metadata, sys) BY DEF UpdateWrite
<1> HIDE DEF i, sys
<1>10. m \in Memory /\ m.partition = Space(r) /\ m.system = sys
  BY <1>4, <1>6, <1>7, <1>8, RewrittenType
<1> HIDE DEF m
<1>11. store' = [store EXCEPT ![i] = m] BY <1>9 DEF UpdateEffect, m
<1>12. store'[i] = m /\ \A j \in Ids \ {i} : store'[j] = store[j]
  BY <1>1, <1>2, <1>11 DEF TypeOK
<1>13. HomeInv' BY <1>6, <1>10, <1>12 DEF HomeInv
<1>14. InSpace(m, Space(r)) BY <1>6, <1>10, NoneAssumption DEF InSpace
<1> QED BY <1>12, <1>13, <1>14 DEF i

\* An add leaves what it stored or changed in its caller's space.
LEMMA AddHome ==
  ASSUME PolicyInv, HomeInv, NEW r \in Requests, HasSent(r, "add"), NEW x \in Extractions(r),
         AddWrite(r, x)
  PROVE  /\ HomeInv'
         /\ \A i \in ReadBackIds(x) :
              i <= created' /\ store'[i] # None /\ store'[i].partition = Space(r)
<1> DEFINE sys == SystemFor(Space(r), caller[r].name, caller[r].name)
           new == NewMemory(Space(r), call[r].content, call[r].scope, call[r].metadata, sys)
           keep(m) == [space |-> m.system.space, author |-> caller[r].name,
                       created_by |-> m.system.created_by]
           Changed(m) == Rewritten(m, call[r].content, NoPatch, keep(m))
           added == IF x.fresh THEN {created + 1} ELSE {}
<1>1. TypeOK /\ FreshIdsFree BY DEF PolicyInv, PolicyTypeOK
<1>2. /\ call[r] \in Call /\ call[r] \in Calls /\ call[r].op = "add"
      /\ Space(r) \in Spaces /\ caller[r].name \in Names
  BY SentFacts DEF WriterOps
<1>3. /\ call[r].content \in Contents /\ call[r].metadata \in Metadata
      /\ call[r].scope \in Scope
  BY <1>2, CallsAssumption DEF Call
<1>4. sys \in System BY <1>2 DEF SystemFor, System
<1>5. /\ new \in Memory /\ new # None
      /\ new.partition = Space(r) /\ new.system.space = Space(r)
  <2>1. new \in Memory BY <1>2, <1>3, <1>4, NewMemoryType
  <2> QED BY <2>1, NoneAssumption DEF NewMemory, SystemFor
<1>6. ASSUME NEW m \in Memory
      PROVE  /\ Changed(m) \in Memory /\ Changed(m) # None
             /\ Changed(m).partition = m.partition
             /\ Changed(m).system.space = m.system.space
  <2>1. m.system \in System BY DEF Memory
  <2>2. keep(m) \in System BY <2>1, <1>2 DEF System
  <2>3. keep(m) # None BY <2>2, NoneAssumption
  <2>4. /\ Changed(m) \in Memory /\ Changed(m).partition = m.partition
        /\ Changed(m).system = keep(m)
    BY <2>2, <2>3, <1>3, NoPatchType, RewrittenType
  <2> QED BY <2>4, NoneAssumption
<1>7. created \in Nat BY <1>1, BoundAssumption DEF TypeOK
<1>8. \A i \in x.changed : i \in Ids /\ i <= created /\ store[i] \in Memory
                           /\ store[i].partition = Space(r)
  <2>1. \A i \in x.changed : i \in Ids /\ store[i] # None /\ store[i].partition = Space(r)
    BY ExtractionType
  <2> QED BY <2>1, <1>1, <1>7 DEF TypeOK, FreshIdsFree, Ids
<1>9. /\ created' = IF x.fresh THEN created + 1 ELSE created
      /\ x.fresh => created < MaxMemories
      /\ store' = [i \in Ids |->
          IF i \in added THEN new
          ELSE IF i \in x.changed THEN Changed(store[i])
          ELSE IF i \in x.removed THEN None ELSE store[i]]
  BY DEF AddWrite
<1>10. \A i \in added : i \in Ids /\ i <= created'
  BY <1>7, <1>9, BoundAssumption DEF Ids
<1>11. ReadBackIds(x) = added \cup x.changed BY DEF ReadBackIds
<1>12. created' >= created BY <1>7, <1>9
<1>13. created' \in Nat BY <1>7, <1>9
<1> HIDE DEF new, Changed, added
<1>14. HomeInv'
  <2> SUFFICES ASSUME NEW i \in Ids, store'[i] # None
               PROVE  store'[i].system.space \in {None, store'[i].partition}
    BY DEF HomeInv
  <2>1. CASE i \in added BY <2>1, <1>5, <1>9
  <2>2. CASE i \in x.changed /\ i \notin added
    <3>1. store'[i] = Changed(store[i]) BY <2>2, <1>9
    <3>2. store[i] \in Memory /\ store[i] # None BY <2>2, <1>8, NoneAssumption
    <3>3. store[i].system.space \in {None, store[i].partition} BY <3>2 DEF HomeInv
    <3> QED BY <3>1, <3>2, <3>3, <1>6
  <2>3. CASE i \notin x.changed /\ i \notin added
    <3>1. store'[i] = store[i] BY <2>3, <1>9
    <3> QED BY <3>1 DEF HomeInv
  <2> QED BY <2>1, <2>2, <2>3
<1>15. ASSUME NEW i \in ReadBackIds(x)
       PROVE  i <= created' /\ store'[i] # None /\ store'[i].partition = Space(r)
  <2>1. CASE i \in added BY <2>1, <1>5, <1>9, <1>10
  <2>2. CASE i \in x.changed /\ i \notin added
    <3>1. i \in Ids /\ i <= created' BY <2>2, <1>7, <1>8, <1>12, <1>13 DEF Ids
    <3>2. store'[i] = Changed(store[i]) BY <2>2, <3>1, <1>9
    <3>3. store[i] \in Memory /\ store[i].partition = Space(r) BY <2>2, <1>8
    <3> QED BY <3>1, <3>2, <3>3, <1>6
  <2> QED BY <1>11, <1>15, <2>1, <2>2
<1> QED BY <1>14, <1>15

\* Every step leaves the memories where they belong.
LEMMA HomeStep ==
  ASSUME IsolatedInv, NEW r \in Requests,
         Start(r) \/ Proceed(r) \/ Fault(r) \/ LateWrite(r)
  PROVE  HomeInv' /\ wrote[r] \subseteq wrote'[r]
<1>1. PolicyInv /\ HomeInv BY DEF IsolatedInv, AuditInv
<1>2. CASE UNCHANGED <<backendVars, wrote>>
  BY <1>1, <1>2 DEF HomeInv, backendVars
<1>3. ASSUME NEW x \in Extractions(r), HasSent(r, "add"), AddWrite(r, x)
      PROVE  HomeInv' /\ wrote[r] \subseteq wrote'[r]
  BY <1>1, <1>3, AddHome, WroteGrows DEF AddWrite
<1>4. ASSUME HasSent(r, "update"), UpdateWrite(r)
      PROVE  HomeInv' /\ wrote[r] \subseteq wrote'[r]
  BY <1>1, <1>4, UpdateHome, WroteGrows DEF UpdateWrite
<1>5. ASSUME DeleteWrite(r) \/ DeleteAllWrite(r)
      PROVE  HomeInv' /\ wrote[r] \subseteq wrote'[r]
  BY <1>1, <1>5, RemoveHome, WroteGrows DEF DeleteWrite, DeleteAllWrite
<1>6. CASE AddReply(r) BY <1>3, <1>6 DEF AddReply, HasSent
<1>7. CASE UpdateReply(r) BY <1>4, <1>7 DEF UpdateReply, HasSent
<1>8. CASE DeleteReply(r) \/ DeleteAllReply(r)
  BY <1>5, <1>8 DEF DeleteReply, DeleteAllReply
<1>9. CASE LateWrite(r)
  BY <1>3, <1>4, <1>5, <1>9 DEF LateWrite, HasSent
<1>10. CASE Start(r) \/ Fault(r) BY <1>2, <1>10 DEF Start, Fault
<1>11. CASE \/ ReadMissing(r) \/ ReadForeign(r) \/ ReadShown(r) \/ ReadOverCap(r) \/ ReadOn(r)
            \/ ReadBack(r) \/ ReadBackFails(r) \/ GoneReply(r) \/ ScanReply(r)
            \/ ScanForeign(r) \/ BadCursor(r) \/ HistoryReply(r) \/ EntitiesReply(r)
  <2>1. UNCHANGED <<backendVars, wrote>>
    BY <1>11 DEF ReadMissing, ReadForeign, ReadShown, ReadOverCap, ReadOn, ReadBack,
       ReadBackFails, GoneReply, ScanReply, ScanForeign, BadCursor, HistoryReply, EntitiesReply
  <2> QED BY <1>2, <2>1
<1> QED BY <1>6, <1>7, <1>8, <1>9, <1>10, <1>11 DEF Proceed

\* What is gone stays gone, and its remover is remembered, through any step.
LEMMA LostKept ==
  ASSUME PolicyInv, NEW r \in Requests, StoreStep, TypeOK', Elsewhere(r),
         wrote[r] \subseteq wrote'[r],
         NEW q \in Requests, NEW i \in Ids, LostTo(q, i)
  PROVE  LostTo(q, i)'
<1>1. created \in Nat /\ created' \in Nat /\ i \in Nat
  BY BoundAssumption DEF PolicyInv, PolicyTypeOK, TypeOK, Ids
<1>2. i <= created' /\ store'[i] = None BY <1>1 DEF LostTo, StoreStep
<1>3. PICK other \in Requests \ {q} : i \in wrote[other] BY DEF LostTo
<1>4. i \in wrote'[other] BY <1>3 DEF Elsewhere, Unmoved
<1> QED BY <1>2, <1>4 DEF LostTo

\* A request's own memory stays its own, or goes.
LEMMA OwnKept ==
  ASSUME PolicyInv, StoreStep, TypeOK', NEW q \in Requests,
         call'[q] = call[q], caller'[q] = caller[q], OwnId(q)
  PROVE  OwnId(q)'
<1>1. created \in Nat /\ created' \in Nat /\ call[q].id \in Nat
  BY BoundAssumption DEF PolicyInv, PolicyTypeOK, TypeOK, OwnId, Ids
<1> QED BY <1>1 DEF OwnId, StoreStep, Space

\* Another request's step removes a memory that is being read back only on record.
LEMMA IsolatedOtherKept ==
  ASSUME IsolatedInv, NEW r \in Requests, RequestStep(r), AuditElsewhere(r),
         wrote[r] \subseteq wrote'[r], NEW q \in Requests \ {r}
  PROVE  GoneAt(q)' /\ FoundAt(q)'
<1>1. PolicyInv /\ GoneAt(q) /\ FoundAt(q) BY DEF IsolatedInv, AuditInv
<1>2. /\ pc'[q] = pc[q] /\ caller'[q] = caller[q] /\ call'[q] = call[q]
      /\ reply'[q] = reply[q] /\ todo'[q] = todo[q] /\ alarm'[q] = alarm[q]
  BY DEF RequestStep, Elsewhere, Unmoved, AuditElsewhere
<1>3. StoreStep /\ TypeOK' /\ Elsewhere(r) BY DEF RequestStep, EffectOf
<1>4. todo[q] \in SUBSET Ids /\ alarm[q] \in SUBSET Ids
  BY <1>1 DEF PolicyInv, PolicyTypeOK
<1>5. \A i \in Ids : LostTo(q, i) => LostTo(q, i)' BY <1>1, <1>3, LostKept
<1>6. ASSUME NEW i \in Ids, i <= created, store[i] # None, store[i].partition = Space(q)
      PROVE  \/ LostTo(q, i)'
             \/ i <= created' /\ store'[i] # None /\ store'[i].partition = Space(q)
  <2>1. created \in Nat /\ created' \in Nat /\ i \in Nat
    BY <1>1, <1>3, BoundAssumption DEF PolicyInv, PolicyTypeOK, TypeOK, Ids
  <2>2. i <= created' BY <1>3, <1>6, <2>1 DEF StoreStep
  <2>3. CASE store'[i] # None BY <1>3, <1>6, <2>2, <2>3 DEF StoreStep
  <2>4. CASE store'[i] = None
    <3>1. i \in Touched BY <1>6, <2>4 DEF Touched
    <3>2. i \in wrote'[r] BY <3>1 DEF RequestStep, EffectOf
    <3> QED BY <2>2, <2>4, <3>2 DEF LostTo
  <2> QED BY <2>3, <2>4
<1>7. GoneAt(q)' BY <1>1, <1>2, <1>4, <1>5, <1>6 DEF GoneAt, Space
<1>8. FoundAt(q)' BY <1>1, <1>2, <1>3, OwnKept DEF FoundAt, Answered
<1> QED BY <1>7, <1>8

\* On a backend that keeps partitions apart, what a by-id read finds passes the check.
LEMMA FoundIsOwn ==
  ASSUME Isolates, IsolatedInv, NEW r \in Requests, NEW i \in Ids, Visible(Space(r), i)
  PROVE  /\ store[i] # None /\ store[i].partition = Space(r) /\ i <= created
         /\ InSpace(store[i], Space(r))
<1>1. store[i] # None /\ store[i].partition = Space(r) BY DEF Visible, Owned
<1>2. InSpace(store[i], Space(r)) BY <1>1 DEF IsolatedInv, HomeInv, InSpace
<1>3. i <= created
  BY <1>1, BoundAssumption
     DEF IsolatedInv, AuditInv, PolicyInv, PolicyTypeOK, TypeOK, FreshIdsFree, Ids
<1> QED BY <1>1, <1>2, <1>3

\* A request that ends without an alarm, and named its own memory or none.
LEMMA EndIsolated ==
  ASSUME IsolatedInv, NEW r \in Requests, pc[r] # "done", pc'[r] = "done",
         UNCHANGED alarm,
         call'[r].op \notin ByIdOps \/ reply'[r].outcome \in FaultKinds \cup {"not_found"}
           \/ OwnId(r)'
  PROVE  GoneAt(r)' /\ FoundAt(r)'
<1>1. alarm'[r] = {} BY DEF IsolatedInv, GoneAt
<1> QED BY <1>1 DEF GoneAt, FoundAt

\* The by-id calls: what they are answered, they are answered about their own memory,
\* and none of them raises the alarm.
LEMMA ByIdIsolated ==
  ASSUME Isolates, IsolatedInv, NEW r \in Requests, RequestStep(r),
         \/ ReadMissing(r) \/ ReadForeign(r) \/ ReadShown(r) \/ ReadOverCap(r)
         \/ UpdateReply(r) \/ DeleteReply(r) \/ GoneReply(r) \/ HistoryReply(r)
  PROVE  GoneAt(r)' /\ FoundAt(r)'
<1> DEFINE i == call[r].id
<1>1. /\ PolicyInv /\ PolicyTypeOK /\ ControlAt(r) /\ HeldAt(r) /\ HomeInv
  BY DEF IsolatedInv, AuditInv, PolicyInv
<1>2. pc[r] \in {"read", "update", "delete", "history"}
  BY DEF ReadMissing, ReadForeign, ReadShown, ReadOverCap, Readable, UpdateReply, DeleteReply,
         GoneReply, HistoryReply
<1>3. i \in Ids /\ pc[r] # "done" BY <1>1, <1>2 DEF ControlAt, Holds, HasSent
<1>4. StoreStep /\ TypeOK' BY DEF RequestStep, EffectOf
<1>5. UNCHANGED <<caller, call>>
  BY DEF ReadMissing, ReadForeign, ReadShown, ReadOverCap, UpdateReply, DeleteReply,
         GoneReply, HistoryReply
<1>6. CASE ReadMissing(r) \/ GoneReply(r)
  <2>1. /\ pc'[r] = "done" /\ reply'[r].outcome = "not_found" /\ UNCHANGED alarm
    BY <1>1, <1>6 DEF ReadMissing, GoneReply, Answer, Bare, PolicyTypeOK
  <2> QED BY <1>3, <2>1, EndIsolated
<1>7. CASE ReadForeign(r)
  BY <1>3, <1>7, FoundIsOwn DEF ReadForeign
<1>8. CASE ReadShown(r) \/ ReadOverCap(r) \/ DeleteReply(r) \/ HistoryReply(r)
  <2>1. Visible(Space(r), i)
    BY <1>8 DEF ReadShown, ReadOverCap, Readable, DeleteReply, DeleteWrite, HistoryReply
  <2>2. OwnId(r) BY <1>3, <2>1, FoundIsOwn DEF OwnId
  <2>3. OwnId(r)' BY <1>1, <1>4, <1>5, <2>2, OwnKept
  <2>4. pc'[r] = "done" /\ UNCHANGED alarm
    BY <1>1, <1>8 DEF ReadShown, ReadOverCap, DeleteReply, HistoryReply, Answer, PolicyTypeOK
  <2> QED BY <1>3, <2>3, <2>4, EndIsolated
<1>9. CASE UpdateReply(r)
  <2>1. HasSent(r, "update") /\ UpdateWrite(r) BY <1>9 DEF UpdateReply, HasSent
  <2>2. Visible(Space(r), i) BY <2>1 DEF UpdateWrite
  <2>3. OwnId(r) BY <1>3, <2>2, FoundIsOwn DEF OwnId
  <2>4. OwnId(r)' BY <1>1, <1>4, <1>5, <2>3, OwnKept
  <2>5. InSpace(store'[i], Space(r)) BY <1>1, <2>1, UpdateHome
  <2>6. pc'[r] = "done" /\ UNCHANGED alarm
    BY <1>1, <1>9, <2>5 DEF UpdateReply, Answer, PolicyTypeOK
  <2> QED BY <1>3, <2>4, <2>6, EndIsolated
<1> QED BY <1>6, <1>7, <1>8, <1>9

\* The scans: what a partition's own scan returns passes the check.
LEMMA ScanIsolated ==
  ASSUME Isolates, IsolatedInv, NEW r \in Requests,
         \/ ScanReply(r) \/ ScanForeign(r) \/ BadCursor(r) \/ EntitiesReply(r)
         \/ DeleteAllReply(r)
  PROVE  GoneAt(r)' /\ FoundAt(r)'
<1>1. PolicyTypeOK /\ PositionAt(r) /\ HomeInv BY DEF IsolatedInv, AuditInv, PolicyInv
<1>2. pc[r] \in {"search", "list_memories", "entities", "delete_all"}
  BY DEF ScanReply, ScanForeign, Scanning, BadCursor, EntitiesReply, DeleteAllReply
<1>3. call[r].op = pc[r] /\ pc[r] # "done" /\ call[r].op \notin ByIdOps
  BY <1>1, <1>2 DEF PositionAt, Awaiting, ByIdOps
<1>4. CASE ScanForeign(r)
  <2>1. PICK i \in Ids : i \in Scanned(r) /\ ~InSpace(store[i], Space(r))
    BY <1>4 DEF ScanForeign
  <2>2. Scanned(r) \subseteq Found(Space(r), call[r].scope)
    BY DEF Scanned, Ranked, Page
  <2>3. i \in Matching(Space(r), call[r].scope) BY <2>1, <2>2 DEF Found
  <2>4. store[i] # None /\ store[i].partition = Space(r) BY <2>3 DEF Matching, Stored
  <2> QED BY <1>1, <2>1, <2>4 DEF HomeInv, InSpace
<1>5. CASE ScanReply(r) \/ BadCursor(r) \/ EntitiesReply(r) \/ DeleteAllReply(r)
  <2>1. pc'[r] = "done" /\ UNCHANGED <<call, alarm>>
    BY <1>1, <1>5 DEF ScanReply, BadCursor, EntitiesReply, DeleteAllReply, Answer, PolicyTypeOK
  <2> QED BY <1>3, <2>1, EndIsolated
<1> QED BY <1>4, <1>5

\* add, and its reads of what it wrote: the alarm means the memory is gone.
LEMMA AddIsolated ==
  ASSUME Isolates, IsolatedInv, NEW r \in Requests,
         AddReply(r) \/ ReadBack(r) \/ ReadBackFails(r)
  PROVE  GoneAt(r)' /\ FoundAt(r)'
<1>1. /\ PolicyInv /\ PolicyTypeOK /\ PositionAt(r) /\ HomeInv /\ GoneAt(r)
  BY DEF IsolatedInv, AuditInv, PolicyInv
<1>2. pc[r] \in {"add", "readback"} /\ UNCHANGED <<caller, call>>
  BY DEF AddReply, ReadBack, ReadBackFails
<1>3. call[r].op = "add" /\ "add" \notin ByIdOps /\ pc[r] # "done"
  BY <1>1, <1>2 DEF PositionAt, Awaiting, ByIdOps
<1>4. FoundAt(r)' BY <1>2, <1>3 DEF FoundAt
<1>5. alarm[r] = {} BY <1>1, <1>3 DEF GoneAt
<1>6. CASE AddReply(r)
  <2>1. PICK x \in Extractions(r) :
          AddWrite(r, x) /\ todo' = [todo EXCEPT ![r] = ReadBackIds(x)]
    BY <1>6 DEF AddReply
  <2>2. alarm' = alarm /\ HasSent(r, "add") BY <1>6 DEF AddReply, HasSent
  <2>3. todo'[r] = ReadBackIds(x) BY <1>1, <2>1 DEF PolicyTypeOK
  <2>4. \A i \in ReadBackIds(x) :
          i <= created' /\ store'[i] # None /\ store'[i].partition = Space(r)
    BY <1>1, <2>1, <2>2, AddHome
  <2> QED BY <1>2, <1>4, <1>5, <2>2, <2>3, <2>4 DEF GoneAt, Space
<1>7. CASE ReadBack(r)
  <2>1. PICK j \in todo[r] :
          /\ todo' = [todo EXCEPT ![r] = @ \ {j}]
          /\ Answer(r, Bare("ok"), ids[r]) \/ UNCHANGED <<pc, reply, audit>>
    BY <1>7 DEF ReadBack
  <2>2. UNCHANGED <<store, created, wrote, alarm>> /\ pc[r] = "readback"
    BY <1>7 DEF ReadBack, backendVars
  <2>3. todo'[r] \subseteq todo[r] BY <1>1, <2>1 DEF PolicyTypeOK
  <2> QED BY <1>1, <1>2, <1>4, <1>5, <2>2, <2>3 DEF GoneAt, LostTo, Space
<1>8. CASE ReadBackFails(r)
  <2>1. PICK i \in todo[r] : ~InSpace(Fetched(r, i), Space(r)) /\ Alarm(r, i)
    BY <1>8 DEF ReadBackFails
  <2>2. UNCHANGED <<store, created, wrote>> /\ pc[r] = "readback"
    BY <1>8 DEF ReadBackFails, backendVars
  <2>3. i \in Ids BY <1>1 DEF PolicyTypeOK
  <2>4. LostTo(r, i)
    <3> SUFFICES ASSUME store[i] # None, store[i].partition = Space(r) PROVE FALSE
      BY <1>1, <2>2 DEF GoneAt
    <3>1. Visible(Space(r), i) BY DEF Visible, Owned
    <3>2. InSpace(store[i], Space(r)) BY <2>3, <3>1, FoundIsOwn
    <3> QED BY <2>1, <3>1, <3>2 DEF Fetched
  <2>5. alarm'[r] = {i} /\ pc'[r] = "done"
    BY <1>1, <1>5, <2>1, <2>3 DEF Alarm, Answer, PolicyTypeOK
  <2>6. LostTo(r, i)' BY <2>2, <2>4 DEF LostTo
  <2> QED BY <1>2, <1>3, <1>4, <2>5, <2>6 DEF GoneAt
<1> QED BY <1>6, <1>7, <1>8

\* A request that arrives, moves on, fails, or whose late write lands.
LEMMA MoveIsolated ==
  ASSUME Isolates, IsolatedInv, NEW r \in Requests, RequestStep(r),
         wrote[r] \subseteq wrote'[r],
         Start(r) \/ ReadOn(r) \/ Fault(r) \/ LateWrite(r)
  PROVE  GoneAt(r)' /\ FoundAt(r)'
<1>1. /\ PolicyInv /\ PolicyTypeOK /\ ControlAt(r) /\ AccountAt(r) /\ GoneAt(r)
  BY DEF IsolatedInv, AuditInv, PolicyInv
<1>2. alarm' = alarm BY DEF Start, ReadOn, Fault, LateWrite
<1>3. CASE Start(r)
  <2>1. PICK key \in Keys \cup {None}, c \in Calls :
          /\ caller' = [caller EXCEPT ![r] = key]
          /\ call' = [call EXCEPT ![r] = c]
          /\ \/ Verdict(key, c) # "ok"
             \/ pc' = [pc EXCEPT ![r] = IF c.op \in ByIdOps THEN "read" ELSE c.op]
          /\ \/ /\ Verdict(key, c) # "ok"
                /\ Answer(r, Bare(Verdict(key, c)),
                          IF c.op \in ByIdOps /\ c.id # None THEN {c.id} ELSE {})
             \/ pc' = [pc EXCEPT ![r] = IF c.op \in ByIdOps THEN "read" ELSE c.op]
    BY <1>3 DEF Start
  <2>2. pc[r] = "idle" BY <1>3 DEF Start
  <2>3. alarm'[r] = {} BY <1>1, <1>2, <2>2 DEF GoneAt
  <2>4. caller'[r] = key /\ call'[r] = c BY <1>1, <2>1 DEF PolicyTypeOK
  <2>5. CASE pc' = [pc EXCEPT ![r] = IF c.op \in ByIdOps THEN "read" ELSE c.op]
    <3>1. c.op \in Ops BY CallsAssumption DEF Call
    <3>2. pc'[r] \notin {"done", "readback"}
      BY <1>1, <2>5, <3>1 DEF PolicyTypeOK, Ops, ByIdOps, WriterOps
    <3> QED BY <2>3, <3>2 DEF GoneAt, FoundAt, Answered
  <2>6. CASE /\ Verdict(key, c) # "ok"
             /\ Answer(r, Bare(Verdict(key, c)),
                       IF c.op \in ByIdOps /\ c.id # None THEN {c.id} ELSE {})
    <3>1. pc'[r] = "done" BY <1>1, <2>6 DEF Answer, PolicyTypeOK
    <3> QED BY <2>3, <2>4, <2>6, <3>1 DEF GoneAt, FoundAt
  <2> QED BY <2>1, <2>5, <2>6
<1>4. CASE ReadOn(r)
  <2>1. /\ pc[r] = "read" /\ call[r].op # "get" /\ pc' = [pc EXCEPT ![r] = call[r].op]
    BY <1>4 DEF ReadOn, Readable
  <2>2. pc'[r] \notin {"done", "readback"} /\ alarm'[r] = {}
    BY <1>1, <1>2, <2>1 DEF ControlAt, ByIdOps, PolicyTypeOK, GoneAt
  <2> QED BY <2>2 DEF GoneAt, FoundAt, Answered
<1>5. CASE Fault(r)
  <2>1. PICK f \in Faults : pc[r] \in Awaiting /\ Answer(r, Bare(f), ids[r])
    BY <1>5 DEF Fault
  <2>2. pc[r] # "done" /\ pc'[r] = "done" /\ reply'[r].outcome \in FaultKinds
    BY <1>1, <2>1, PolicyConstants DEF Answer, Bare, Awaiting, PolicyTypeOK
  <2> QED BY <1>2, <2>2, EndIsolated
<1>6. CASE LateWrite(r)
  <2>1. /\ late[r] # "none" /\ UNCHANGED <<pc, call, caller, reply>>
    BY <1>6 DEF LateWrite
  <2>2. pc'[r] = "done" /\ reply'[r].outcome \in FaultKinds
    BY <1>1, <2>1 DEF ControlAt, AccountAt
  <2>3. StoreStep /\ TypeOK' /\ Elsewhere(r) BY DEF RequestStep, EffectOf
  <2>4. \A i \in alarm[r] : i \in Ids /\ (LostTo(r, i) => LostTo(r, i)')
    BY <1>1, <2>3, LostKept DEF PolicyTypeOK
  <2>5. GoneAt(r)' BY <1>1, <1>2, <2>1, <2>2, <2>4 DEF GoneAt
  <2> QED BY <2>2, <2>5 DEF FoundAt
<1> QED BY <1>3, <1>4, <1>5, <1>6

\* The invariant holds on every backend that keeps partitions apart, from every store
\* whose memories belong where they are.
THEOREM IsolatedInvCorrect == Isolates /\ PreloadHome /\ PolicySpec => []IsolatedInv
<1> SUFFICES ASSUME Isolates, PreloadHome PROVE PolicySpec => []IsolatedInv OBVIOUS
<1>1. PolicyInit /\ AuditInv => IsolatedInv
  <2> SUFFICES ASSUME PolicyInit, AuditInv PROVE IsolatedInv OBVIOUS
  <2>1. PICK q \in Preload : store = [i \in Ids |-> IF i <= Len(q) THEN q[i] ELSE None]
    BY DEF PolicyInit
  <2>2. Len(q) \in Nat BY PreloadAssumption
  <2>3. HomeInv BY <2>1, <2>2 DEF HomeInv, PreloadHome, Ids
  <2>4. ASSUME NEW r \in Requests PROVE GoneAt(r) /\ FoundAt(r)
    <3>1. pc[r] = "idle" /\ alarm[r] = {} BY DEF PolicyInit
    <3> QED BY <3>1 DEF GoneAt, FoundAt, Answered
  <2> QED BY <2>3, <2>4 DEF IsolatedInv
<1>2. IsolatedInv /\ [PolicyNext]_vars /\ AuditInv' => IsolatedInv'
  <2> SUFFICES ASSUME IsolatedInv, [PolicyNext]_vars, AuditInv' PROVE IsolatedInv'
    OBVIOUS
  <2>1. PolicyInv /\ AuditInv BY DEF IsolatedInv, AuditInv
  <2>2. CASE PolicyNext
    <3>1. PICK r \in Requests : Start(r) \/ Proceed(r) \/ Fault(r) \/ LateWrite(r)
      BY <2>2 DEF PolicyNext
    <3>2. RequestStep(r) /\ AuditElsewhere(r)
      BY <2>1, <3>1, RequestStepOf, AuditStepOf DEF AuditStep
    <3>3. HomeInv' /\ wrote[r] \subseteq wrote'[r] BY <3>1, HomeStep
    <3>4. GoneAt(r)' /\ FoundAt(r)'
      BY <3>1, <3>2, <3>3, ByIdIsolated, ScanIsolated, AddIsolated, MoveIsolated DEF Proceed
    <3>5. \A q \in Requests \ {r} : GoneAt(q)' /\ FoundAt(q)'
      BY <3>2, <3>3, IsolatedOtherKept
    <3> QED BY <3>3, <3>4, <3>5 DEF IsolatedInv
  <2>3. CASE UNCHANGED vars
    <3>1. UNCHANGED <<store, created, pc, caller, call, todo, reply, alarm, wrote>>
      BY <2>3 DEF vars, backendVars, requestVars
    <3>2. HomeInv' BY <3>1 DEF IsolatedInv, HomeInv
    <3>3. \A r \in Requests : GoneAt(r)' /\ FoundAt(r)'
      BY <3>1 DEF IsolatedInv, GoneAt, FoundAt, LostTo, OwnId, Answered, Space
    <3> QED BY <3>2, <3>3 DEF IsolatedInv
  <2> QED BY <2>2, <2>3
<1> QED BY <1>1, <1>2, AuditInvCorrect, PTL DEF PolicySpec

\* On such a backend isolation_violation is logged only for an add's memory that
\* another request removed before it was read back (policy/__init__.py 172-176).
THEOREM AlarmMeansGoneCorrect ==
  Isolates /\ PreloadHome /\ PolicySpec => []AlarmMeansGone
<1>1. IsolatedInv => AlarmMeansGone
  BY DEF IsolatedInv, GoneAt, LostTo, AlarmMeansGone
<1> QED BY <1>1, IsolatedInvCorrect, PTL

\* By id, another space's memory is answered as if it were missing
\* (policy/__init__.py 209-216).
THEOREM ForeignLooksMissingCorrect ==
  Isolates /\ PreloadHome /\ PolicySpec => []ForeignLooksMissing
<1>1. IsolatedInv => ForeignLooksMissing
  BY DEF IsolatedInv, FoundAt, OwnId, Space, ForeignLooksMissing
<1> QED BY <1>1, IsolatedInvCorrect, PTL

(***************************************************************************)
(* The metadata cap.                                                       *)
(***************************************************************************)

\* An update that was sent passed the cap check on the memory it had read.
CapAt(r) ==
  HasSent(r, "update") => ~OverCap(seen[r].metadata, call[r].metadata)

CapInv ==
  /\ AuditInv
  /\ \A r \in Requests : CapAt(r)

\* Only the read before it lets an update be sent.
LEMMA CapStep ==
  ASSUME CapInv, NEW r \in Requests,
         Start(r) \/ Proceed(r) \/ Fault(r) \/ LateWrite(r)
  PROVE  CapAt(r)'
<1>1. PolicyTypeOK /\ ControlAt(r) /\ CapAt(r) BY DEF CapInv, AuditInv, PolicyInv
<1>2. ASSUME UNCHANGED <<call, seen>>,
             pc'[r] = "update" => pc[r] = "update",
             late'[r] = "update" => HasSent(r, "update")
      PROVE  CapAt(r)'
  BY <1>1, <1>2 DEF CapAt, HasSent
<1>3. CASE Start(r)
  <2>1. PICK key \in Keys \cup {None}, c \in Calls :
          \/ \E named : Answer(r, Bare(Verdict(key, c)), named)
          \/ pc' = [pc EXCEPT ![r] = IF c.op \in ByIdOps THEN "read" ELSE c.op]
    BY <1>3 DEF Start
  <2>2. pc'[r] # "update" BY <1>1, <2>1 DEF Answer, PolicyTypeOK, ByIdOps
  <2>3. late'[r] = "none" BY <1>1, <1>3 DEF Start, ControlAt
  <2> QED BY <2>2, <2>3 DEF CapAt, HasSent
<1>4. CASE ReadOn(r)
  <2> DEFINE m == store[call[r].id]
  <2>1. /\ pc[r] = "read" /\ pc' = [pc EXCEPT ![r] = call[r].op]
        /\ seen' = [seen EXCEPT ![r] = m] /\ UNCHANGED <<call, late>>
        /\ call[r].op = "update" => ~OverCap(m.metadata, call[r].metadata)
    BY <1>4 DEF ReadOn, Readable
  <2>2. late'[r] = "none" /\ pc'[r] = call[r].op /\ seen'[r] = m
    BY <1>1, <2>1 DEF ControlAt, PolicyTypeOK
  <2> HIDE DEF m
  <2> QED BY <2>1, <2>2 DEF CapAt, HasSent, OverCap
<1>5. CASE Fault(r)
  <2>1. PICK f \in Faults :
          /\ Answer(r, Bare(f), ids[r])
          /\ late' = [late EXCEPT
               ![r] = IF f # "error" /\ pc[r] \in WriterOps THEN pc[r] ELSE "none"]
          /\ UNCHANGED <<call, seen>>
    BY <1>5 DEF Fault
  <2>2. pc'[r] = "done" /\ (late'[r] = "update" => pc[r] = "update")
    BY <1>1, <2>1 DEF Answer, PolicyTypeOK
  <2> QED BY <1>2, <2>1, <2>2 DEF HasSent
<1>6. CASE LateWrite(r)
  BY <1>1, <1>2, <1>6 DEF LateWrite, PolicyTypeOK
<1>7. ASSUME UNCHANGED <<call, seen, late>>, NEW rep, NEW named, Answer(r, rep, named)
      PROVE  CapAt(r)'
  <2>1. pc'[r] = "done" BY <1>1, <1>7 DEF Answer, PolicyTypeOK
  <2> QED BY <1>2, <1>7, <2>1 DEF HasSent
<1>8. CASE \/ ReadMissing(r) \/ ReadForeign(r) \/ ReadShown(r) \/ ReadOverCap(r)
           \/ ReadBackFails(r) \/ GoneReply(r) \/ ScanReply(r) \/ ScanForeign(r)
           \/ BadCursor(r) \/ HistoryReply(r)
  BY <1>7, <1>8
     DEF ReadMissing, ReadForeign, ReadShown, ReadOverCap, ReadBackFails, GoneReply,
         ScanReply, ScanForeign, BadCursor, HistoryReply, Alarm
<1>9. CASE EntitiesReply(r) BY <1>7, <1>9 DEF EntitiesReply
<1>10. CASE UpdateReply(r) \/ DeleteReply(r) \/ DeleteAllReply(r)
  BY <1>7, <1>10 DEF UpdateReply, DeleteReply, DeleteAllReply, Alarm
<1>11. CASE AddReply(r) \/ ReadBack(r)
  <2>1. /\ UNCHANGED <<call, seen, late>>
        /\ \/ \E rep, named : Answer(r, rep, named)
           \/ pc' = [pc EXCEPT ![r] = "readback"] \/ pc' = pc
    BY <1>11 DEF AddReply, ReadBack
  <2>2. pc' = [pc EXCEPT ![r] = "readback"] => pc'[r] = "readback" BY <1>1 DEF PolicyTypeOK
  <2> QED BY <1>2, <1>7, <2>1, <2>2 DEF HasSent
<1> QED BY <1>3, <1>4, <1>5, <1>6, <1>8, <1>9, <1>10, <1>11 DEF Proceed

\* The cap check stays in force until the update is written.
THEOREM CapInvCorrect == PolicySpec => []CapInv
<1>1. PolicyInit /\ AuditInv => CapInv
  <2> SUFFICES ASSUME PolicyInit, AuditInv, NEW r \in Requests PROVE CapAt(r) BY DEF CapInv
  <2>1. pc[r] = "idle" /\ late[r] = "none" BY DEF PolicyInit
  <2> QED BY <2>1 DEF CapAt, HasSent
<1>2. CapInv /\ [PolicyNext]_vars /\ AuditInv' => CapInv'
  <2> SUFFICES ASSUME CapInv, [PolicyNext]_vars, AuditInv' PROVE CapInv' OBVIOUS
  <2>1. CASE PolicyNext
    <3>1. PICK r \in Requests : Start(r) \/ Proceed(r) \/ Fault(r) \/ LateWrite(r)
      BY <2>1 DEF PolicyNext
    <3>2. Elsewhere(r) BY <3>1, RequestStepOf DEF CapInv, AuditInv, RequestStep
    <3>3. ASSUME NEW q \in Requests PROVE CapAt(q)'
      <4>1. CASE q = r BY <3>1, <4>1, CapStep
      <4>2. CASE q # r
        BY <3>2, <4>2 DEF CapInv, CapAt, HasSent, Elsewhere, Unmoved
      <4> QED BY <4>1, <4>2
    <3> QED BY <3>3 DEF CapInv
  <2>2. CASE UNCHANGED vars
    BY <2>2 DEF vars, requestVars, CapInv, CapAt, HasSent
  <2> QED BY <2>1, <2>2
<1> QED BY <1>1, <1>2, AuditInvCorrect, PTL DEF PolicySpec

\* Every write an update's request makes is the update of the memory it names.
LEMMA UpdateWrites ==
  ASSUME AuditInv, NEW r \in Requests,
         Start(r) \/ Proceed(r) \/ Fault(r) \/ LateWrite(r),
         wrote'[r] # wrote[r], call[r].op = "update"
  PROVE  HasSent(r, "update") /\ UpdateWrite(r)
<1>1. PolicyTypeOK /\ ControlAt(r) /\ PositionAt(r) BY DEF AuditInv, PolicyInv
<1>2. \A op \in WriterOps : HasSent(r, op) => op = "update" BY <1>1 DEF ControlAt
<1>3. CASE AddReply(r) BY <1>2, <1>3 DEF AddReply, HasSent, WriterOps
<1>4. CASE UpdateReply(r) BY <1>4 DEF UpdateReply, HasSent
<1>5. CASE DeleteReply(r) \/ DeleteAllReply(r)
  BY <1>2, <1>5 DEF DeleteReply, DeleteAllReply, HasSent, WriterOps
<1>6. CASE LateWrite(r) BY <1>2, <1>6 DEF LateWrite, HasSent, WriterOps
<1>7. CASE \/ Start(r) \/ Fault(r) \/ ReadMissing(r) \/ ReadForeign(r) \/ ReadShown(r)
           \/ ReadOverCap(r) \/ ReadOn(r) \/ ReadBack(r) \/ ReadBackFails(r) \/ GoneReply(r)
           \/ ScanReply(r) \/ ScanForeign(r) \/ BadCursor(r) \/ HistoryReply(r)
           \/ EntitiesReply(r)
  <2>1. UNCHANGED wrote
    BY <1>7 DEF Start, Fault, ReadMissing, ReadForeign, ReadShown, ReadOverCap, ReadOn,
       ReadBack, ReadBackFails, GoneReply, ScanReply, ScanForeign, BadCursor, HistoryReply,
       EntitiesReply
  <2> QED BY <2>1
<1> QED BY <1>3, <1>4, <1>5, <1>6, <1>7 DEF Proceed

\* An update passes the metadata cap only when another write came between its read and
\* its own (policy/__init__.py 242-247).
THEOREM CapPassedOnlyByRaceCorrect == PolicySpec => CapPassedOnlyByRace
<1> DEFINE Capped ==
      \A r \in Requests : \A i \in (wrote'[r] \ wrote[r]) \cap Stored :
        /\ call[r].op = "update"
        /\ seen[r].metadata = store[i].metadata
        /\ store'[i] # None
        => LET size == Size(store'[i].metadata)
           IN \/ size <= MaxMetadata \/ size <= Size(store[i].metadata)
              \/ store'[i].metadata = store[i].metadata
<1>1. CapInv /\ [PolicyNext]_vars => [Capped]_vars
  <2> SUFFICES ASSUME CapInv, PolicyNext, NEW r \in Requests,
                      NEW i \in (wrote'[r] \ wrote[r]) \cap Stored,
                      call[r].op = "update", seen[r].metadata = store[i].metadata
               PROVE  \/ Size(store'[i].metadata) <= MaxMetadata
                      \/ Size(store'[i].metadata) <= Size(store[i].metadata)
                      \/ store'[i].metadata = store[i].metadata
    OBVIOUS
  <2>1. PICK q \in Requests : Start(q) \/ Proceed(q) \/ Fault(q) \/ LateWrite(q)
    BY DEF PolicyNext
  <2>2. /\ AuditInv /\ PolicyInv /\ PolicyTypeOK /\ TypeOK /\ CapAt(r)
    BY DEF CapInv, AuditInv, PolicyInv, PolicyTypeOK
  <2>3. q = r BY <2>1, <2>2, RequestStepOf DEF RequestStep, Elsewhere, Unmoved
  <2>4. HasSent(r, "update") /\ UpdateWrite(r) BY <2>1, <2>2, <2>3, UpdateWrites
  <2>5. i = call[r].id /\ i \in Ids
    BY <2>2, <2>4 DEF UpdateWrite, Wrote, Stored, PolicyTypeOK
  <2>6. store'[i].metadata = Patched(store[i].metadata, call[r].metadata)
    <3>1. UpdateEffect(i, call[r].content, call[r].metadata,
                       SystemFor(Space(r), caller[r].name, seen[r].system.created_by))
      BY <2>4, <2>5 DEF UpdateWrite
    <3> QED BY <2>2, <2>5, <3>1 DEF UpdateEffect, TypeOK, Rewritten
  <2>7. ~OverCap(store[i].metadata, call[r].metadata) BY <2>2, <2>4 DEF CapAt
  <2>8. CASE call[r].metadata = NoPatch
    <3>1. store[i].metadata \in Metadata
      BY <2>2, <2>5 DEF TypeOK, Stored, Memory
    <3>2. Patched(store[i].metadata, NoPatch) = store[i].metadata
      BY <3>1 DEF Patched, NoPatch, Metadata
    <3> QED BY <2>6, <2>8, <3>2
  <2>9. CASE call[r].metadata # NoPatch BY <2>6, <2>7, <2>9 DEF OverCap
  <2> QED BY <2>8, <2>9
<1>2. PolicySpec => [][Capped]_vars
  BY <1>1, CapInvCorrect, PTL DEF PolicySpec
<1> QED BY <1>2 DEF CapPassedOnlyByRace

=============================================================================

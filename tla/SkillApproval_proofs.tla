------------------------ MODULE SkillApproval_proofs ------------------------
(***************************************************************************)
(* Theorems about SkillApproval for every set of suggestions, categories   *)
(* and texts, and for any number of failures.                              *)
(***************************************************************************)
EXTENDS SkillApproval, FiniteSetTheorems, WellFoundedInduction, TLAPS

USE CategoriesAssumption, TextsAssumption, BoundAssumption

-----------------------------------------------------------------------------
(* Type correctness.  That version numbers are positive rests on Max being *)
(* defined, and so on the numbers of a category being bounded: no version  *)
(* has a number above its place in the table.  That the marked row is one  *)
(* rests on the approval being about a suggestion, which stays pending.    *)

NumbersBounded == \A i \in DOMAIN versions : versions[i].number <= i

ApprovesPending ==
  ~Idle => /\ op.suggestion \in Suggestions
           /\ suggestions[op.suggestion].status = "pending"

TypeInv == TypeOK /\ NumbersBounded /\ ApprovesPending

\* A non-empty set of naturals with a bound has a maximum.
LEMMA MaxIsMaximum ==
  ASSUME NEW S \in SUBSET Nat, S # {}, NEW b \in Nat, \A x \in S : x <= b
  PROVE  Max(S) \in S /\ \A x \in S : x <= Max(S)
<1> DEFINE Bounds == {n \in Nat : \A x \in S : x <= n}
<1>1. PICK m \in Bounds : \A n \in Bounds : ~(<<n, m>> \in OpToRel(<, Nat))
  <2>1. b \in Bounds
    OBVIOUS
  <2>2. IsWellFoundedOn(OpToRel(<, Nat), Nat)
    BY NatLessThanWellFounded
  <2> HIDE DEF Bounds
  <2>3. Bounds \subseteq Nat
    BY DEF Bounds
  <2> QED
    BY <2>1, <2>2, <2>3, WFMin
<1>2. \A n \in Bounds : ~(n < m)
  BY <1>1 DEF OpToRel
<1>3. m \in S
  <2>1. SUFFICES ASSUME m \notin S PROVE FALSE
    OBVIOUS
  <2>2. PICK x \in S : TRUE
    OBVIOUS
  <2>3. m - 1 \in Bounds
    BY <2>1, <2>2
  <2> QED
    BY <1>2, <2>3
<1>4. \E x \in S : \A y \in S : x >= y
  BY <1>3
<1> QED
  BY <1>4 DEF Max

\* The next version has a positive number, one above its predecessors'.
LEMMA NextVersionType ==
  ASSUME TypeInv, NEW c
  PROVE  /\ NextVersion(c) \in Nat \ {0}
         /\ NextVersion(c) <= Len(versions) + 1
         /\ \A n \in Numbers(c) : n < NextVersion(c)
<1>1. versions \in Seq(VersionRows) /\ Len(versions) \in Nat
      /\ DOMAIN versions = 1 .. Len(versions)
  BY DEF TypeInv, TypeOK
<1>2. Numbers(c) \in SUBSET Nat /\ \A n \in Numbers(c) : n <= Len(versions)
  <2>1. SUFFICES ASSUME NEW i \in DOMAIN versions
                 PROVE  versions[i].number \in Nat /\ versions[i].number <= Len(versions)
    BY DEF Numbers
  <2>2. versions[i] \in VersionRows
    BY <1>1
  <2>3. versions[i].number \in Nat
    BY <2>2 DEF VersionRows
  <2>4. versions[i].number <= i
    BY DEF TypeInv, NumbersBounded
  <2> QED
    BY <1>1, <2>3, <2>4
<1>3. CASE Numbers(c) = {}
  BY <1>1, <1>3 DEF NextVersion
<1>4. CASE Numbers(c) # {}
  <2>1. Max(Numbers(c)) \in Numbers(c) /\ \A n \in Numbers(c) : n <= Max(Numbers(c))
    BY <1>1, <1>2, <1>4, MaxIsMaximum
  <2> QED
    BY <1>1, <1>2, <1>4, <2>1 DEF NextVersion
<1> QED
  BY <1>3, <1>4

LEMMA TypeInit == Init => TypeInv
<1> SUFFICES ASSUME Init PROVE TypeInv
  OBVIOUS
<1>1. TypeOK
  BY DEF Init, TypeOK, NoSuggestion, SuggestionRows, IdleApproval, Approvals,
         Contents, Verdicts, Outcomes
<1>2. NumbersBounded
  BY DEF Init, NumbersBounded
<1>3. ApprovesPending
  BY DEF Init, ApprovesPending, Idle, IdleApproval
<1> QED
  BY <1>1, <1>2, <1>3 DEF TypeInv

\* A row is inserted in the place of an absent one.
LEMMA TypeInsert ==
  ASSUME TypeInv, NEW s \in Suggestions, NEW row \in SuggestionRows, Insert(s, row)
  PROVE  TypeInv'
<1>1. TypeOK'
  BY DEF TypeInv, TypeOK, Insert, Outcomes
<1>2. NumbersBounded'
  BY DEF TypeInv, NumbersBounded, Insert
<1>3. ApprovesPending'
  BY DEF TypeInv, TypeOK, ApprovesPending, Idle, Insert
<1> QED
  BY <1>1, <1>2, <1>3 DEF TypeInv

\* A skill file is written, or none.
LEMMA TypeWriteSkill ==
  ASSUME TypeInv, NEW c, NEW text \in Contents, WriteSkill(c, text)
  PROVE  skills' \in [Categories -> Contents] /\ cached' \in Verdicts
BY DEF TypeInv, TypeOK, WriteSkill

LEMMA TypeNext == TypeInv /\ [Next]_vars => TypeInv'
<1> SUFFICES ASSUME TypeInv, [Next]_vars PROVE TypeInv'
  OBVIOUS
<1> USE DEF TypeInv
<1>1. ASSUME NEW s \in Suggestions, Suggest(s) PROVE TypeInv'
  <2>1. PICK c \in Categories \cup {Null}, t \in Texts \cup {Empty}, n \in BOOLEAN :
          Insert(s, [status |-> "pending", category |-> c, text |-> t, numeric |-> n])
    BY <1>1 DEF Suggest
  <2>2. [status |-> "pending", category |-> c, text |-> t, numeric |-> n]
          \in SuggestionRows
    BY DEF SuggestionRows
  <2> QED
    BY <2>1, <2>2, TypeInsert
<1>2. ASSUME NEW s \in Suggestions, DriftSuggests(s) PROVE TypeInv'
  <2>1. PICK t \in Texts :
          Insert(s, [status |-> "pending", category |-> DriftCategory,
                     text |-> t, numeric |-> FALSE])
    BY <1>2 DEF DriftSuggests
  <2>2. [status |-> "pending", category |-> DriftCategory, text |-> t,
         numeric |-> FALSE] \in SuggestionRows
    BY DEF SuggestionRows
  <2> QED
    BY <2>1, <2>2, TypeInsert
<1>3. ASSUME NEW s \in Suggestions, Reject(s) PROVE TypeInv'
  <2>1. TypeOK'
    BY <1>3 DEF TypeOK, Reject, SuggestionRows, Outcomes
  <2>2. NumbersBounded' /\ ApprovesPending'
    BY <1>3 DEF NumbersBounded, ApprovesPending, Reject, Idle
  <2> QED
    BY <2>1, <2>2
<1>4. ASSUME NEW s \in Suggestions, Approve(s) PROVE TypeInv'
  <2>1. suggestions[s] \in SuggestionRows
    BY DEF TypeOK
  <2>2. op' \in Approvals
    BY <1>4, <2>1 DEF TypeOK, Approve, Approvals, SuggestionRows
  <2>3. skills' \in [Categories -> Contents] /\ cached' \in Verdicts
    <3>1. CASE suggestions[s].category # Null /\ suggestions[s].text # Empty
      <4>1. suggestions[s].text \in Contents
        BY <2>1 DEF SuggestionRows, Contents
      <4> QED
        BY <1>4, <3>1, <4>1, TypeWriteSkill DEF Approve, ApplyText
    <3>2. CASE ~(suggestions[s].category # Null /\ suggestions[s].text # Empty)
      BY <1>4, <3>2 DEF Approve, ApplyText, TypeOK
    <3> QED
      BY <3>1, <3>2
  <2>4. TypeOK'
    BY <1>4, <2>2, <2>3 DEF TypeOK, Approve, Outcomes
  <2>5. NumbersBounded' /\ ApprovesPending'
    BY <1>4 DEF NumbersBounded, ApprovesPending, Approve, Pending
  <2> QED
    BY <2>4, <2>5
<1>5. CASE EditRules
  BY <1>5 DEF EditRules, TypeOK, NumbersBounded, ApprovesPending, Idle, Outcomes
<1>6. CASE ListPending
  BY <1>6 DEF ListPending, TypeOK, NumbersBounded, ApprovesPending, Idle, Outcomes
<1>7. ASSUME NEW i \in DOMAIN versions, Rollback(i) PROVE TypeInv'
  <2>1. skills' \in [Categories -> Contents] /\ cached' \in Verdicts
    <3>1. CASE HasOld(versions[i].old)
      <4>1. versions[i] \in VersionRows
        BY DEF TypeOK
      <4>2. versions[i].old \in Contents
        BY <3>1, <4>1 DEF VersionRows, HasOld
      <4> QED
        BY <1>7, <3>1, <4>2, TypeWriteSkill DEF Rollback
    <3>2. CASE ~HasOld(versions[i].old)
      BY <1>7, <3>2 DEF Rollback, TypeOK
    <3> QED
      BY <3>1, <3>2
  <2>2. TypeOK'
    BY <1>7, <2>1 DEF Rollback, TypeOK, Outcomes
  <2>3. NumbersBounded' /\ ApprovesPending'
    BY <1>7 DEF Rollback, NumbersBounded, ApprovesPending, Idle
  <2> QED
    BY <2>2, <2>3
<1>8. CASE GateBlocks
  <2>1. skills' \in [Categories -> Contents] /\ cached' \in Verdicts
    <3>1. CASE HasOld(op.old)
      <4>1. op.old \in Contents
        BY <3>1 DEF TypeOK, Approvals, HasOld
      <4> QED
        BY <1>8, <3>1, <4>1, TypeWriteSkill DEF GateBlocks
    <3>2. CASE ~HasOld(op.old)
      BY <1>8, <3>2 DEF GateBlocks, TypeOK
    <3> QED
      BY <3>1, <3>2
  <2>2. TypeOK'
    BY <1>8, <2>1 DEF GateBlocks, TypeOK, Outcomes, IdleApproval, Approvals, Verdicts
  <2>3. NumbersBounded' /\ ApprovesPending'
    BY <1>8 DEF GateBlocks, NumbersBounded, ApprovesPending, Idle, IdleApproval
  <2> QED
    BY <2>2, <2>3
<1>9. CASE GatePasses
  <2>1. TypeOK'
    BY <1>9 DEF GatePasses, TypeOK, Approvals
  <2>2. NumbersBounded' /\ ApprovesPending'
    BY <1>9 DEF GatePasses, NumbersBounded, ApprovesPending, Idle, TypeOK, Approvals
  <2> QED
    BY <2>1, <2>2
<1>10. CASE InsertVersion
  <2> DEFINE row == [number |-> NextVersion(Label), category |-> Label, old |-> op.old,
                     new |-> Text, suggestion |-> op.suggestion]
  <2>1. op.suggestion \in Suggestions /\ suggestions[op.suggestion] \in SuggestionRows
    BY <1>10 DEF InsertVersion, ApprovesPending, Idle, TypeOK
  <2>2. /\ NextVersion(Label) \in Nat \ {0}
        /\ NextVersion(Label) <= Len(versions) + 1
    BY NextVersionType
  <2>3. Label \in Categories \cup {"GENERAL"} /\ Text \in Texts \cup {Empty}
    BY <2>1 DEF Label, Category, Text, SuggestionRows
  <2>4. row \in VersionRows
    BY <2>1, <2>2, <2>3 DEF VersionRows, TypeOK, Approvals
  <2> HIDE DEF row
  <2>5. versions' = Append(versions, row) /\ versions \in Seq(VersionRows)
    BY <1>10 DEF InsertVersion, row, TypeOK
  <2>6. versions' \in Seq(VersionRows)
    BY <2>4, <2>5
  <2>7. TypeOK'
    BY <1>10, <2>6 DEF InsertVersion, TypeOK, Approvals
  <2>8. NumbersBounded'
    <3>1. row.number <= Len(versions) + 1
      BY <2>2 DEF row
    <3>2. SUFFICES ASSUME NEW i \in DOMAIN versions' PROVE versions'[i].number <= i
      BY DEF NumbersBounded
    <3>3. CASE i = Len(versions) + 1
      BY <2>5, <3>1, <3>3
    <3>4. CASE i \in DOMAIN versions
      BY <2>5, <3>4 DEF NumbersBounded
    <3> QED
      BY <2>5, <3>3, <3>4
  <2>9. ApprovesPending'
    BY <1>10 DEF InsertVersion, ApprovesPending, Idle, TypeOK, Approvals
  <2> QED
    BY <2>7, <2>8, <2>9
<1>11. CASE MarkApproved
  <2> DEFINE row == [suggestions[op.suggestion] EXCEPT !.status = "approved"]
  <2>1. op.suggestion \in Suggestions /\ suggestions[op.suggestion] \in SuggestionRows
    BY <1>11 DEF MarkApproved, ApprovesPending, Idle, TypeOK
  <2>2. row \in SuggestionRows
    BY <2>1 DEF SuggestionRows
  <2>3. suggestions' = [suggestions EXCEPT ![op.suggestion] = row]
    BY <1>11 DEF MarkApproved
  <2> HIDE DEF row
  <2>4. suggestions' \in [Suggestions -> SuggestionRows]
    BY <2>1, <2>2, <2>3 DEF TypeOK
  <2>5. TypeOK'
    BY <1>11, <2>4 DEF MarkApproved, TypeOK, Outcomes, IdleApproval, Approvals, Verdicts
  <2>6. NumbersBounded' /\ ApprovesPending'
    BY <1>11 DEF MarkApproved, NumbersBounded, ApprovesPending, Idle, IdleApproval
  <2> QED
    BY <2>5, <2>6
<1>12. CASE ApprovalFails
  <2>1. TypeOK'
    BY <1>12 DEF ApprovalFails, TypeOK, Outcomes, IdleApproval, Approvals, Verdicts
  <2>2. NumbersBounded' /\ ApprovesPending'
    BY <1>12 DEF ApprovalFails, NumbersBounded, ApprovesPending, Idle, IdleApproval
  <2> QED
    BY <2>1, <2>2
<1>13. CASE Restart
  <2>1. TypeOK'
    BY <1>13 DEF Restart, TypeOK, Outcomes, IdleApproval, Approvals, Verdicts
  <2>2. NumbersBounded' /\ ApprovesPending'
    BY <1>13 DEF Restart, NumbersBounded, ApprovesPending, Idle, IdleApproval
  <2> QED
    BY <2>1, <2>2
<1>14. CASE UNCHANGED vars
  BY <1>14 DEF vars, TypeOK, NumbersBounded, ApprovesPending, Idle
<1> QED
  BY <1>1, <1>2, <1>3, <1>4, <1>5, <1>6, <1>7, <1>8, <1>9, <1>10, <1>11, <1>12,
     <1>13, <1>14 DEF Next

\* The tables, the files and the local variables of the approval keep their
\* types; in particular every version has a positive number.
THEOREM TypeCorrectness == Spec => []TypeOK
<1>1. Spec => []TypeInv
  BY TypeInit, TypeNext, PTL DEF Spec
<1>2. TypeInv => TypeOK
  BY DEF TypeInv
<1> QED
  BY <1>1, <1>2, PTL

-----------------------------------------------------------------------------
(* The record of changes.  An approval that is about to mark its           *)
(* suggestion has inserted the version, and versions are never removed.    *)

Recorded(s) ==
  \E i \in DOMAIN versions :
    versions[i].suggestion = s /\ versions[i].new = suggestions[s].text

RecordInv ==
  /\ ApprovedIsRecorded
  /\ op.pc = "mark" => Recorded(op.suggestion)

\* What is recorded stays recorded while rows are appended and the text of a
\* suggestion does not change.
LEMMA RecordedStays ==
  ASSUME NEW s, Recorded(s), suggestions'[s].text = suggestions[s].text,
         \A i \in DOMAIN versions : i \in DOMAIN versions' /\ versions'[i] = versions[i]
  PROVE  Recorded(s)'
BY DEF Recorded

LEMMA RecordNext == TypeInv /\ RecordInv /\ [Next]_vars => RecordInv'
<1> SUFFICES ASSUME TypeInv, RecordInv, [Next]_vars PROVE RecordInv'
  OBVIOUS
<1> USE DEF RecordInv
<1>0. /\ suggestions \in [Suggestions -> SuggestionRows]
      /\ versions \in Seq(VersionRows)
      /\ ~Idle => op.suggestion \in Suggestions
  BY DEF TypeInv, TypeOK, ApprovesPending
<1>a. ApprovedIsRecorded <=>
        \A s \in Suggestions : suggestions[s].status = "approved" => Recorded(s)
  BY DEF ApprovedIsRecorded, Recorded
<1>b. ApprovedIsRecorded' <=>
        \A s \in Suggestions : suggestions'[s].status = "approved" => Recorded(s)'
  BY DEF ApprovedIsRecorded, Recorded
<1>1. ASSUME NEW s \in Suggestions, NEW row \in SuggestionRows, Insert(s, row),
             row.status = "pending"
      PROVE  RecordInv'
  <2>1. \A r \in Suggestions : Recorded(r) /\ r # s => Recorded(r)'
    BY <1>0, <1>1, RecordedStays DEF Insert
  <2>2. op.pc = "mark" => op.suggestion # s
    BY <1>1 DEF TypeInv, ApprovesPending, Idle, Insert
  <2>3. ApprovedIsRecorded'
    BY <1>0, <1>1, <1>a, <1>b, <2>1 DEF Insert
  <2>4. op'.pc = "mark" => Recorded(op.suggestion)'
    BY <1>0, <1>1, <2>1, <2>2 DEF Insert, Idle
  <2> QED
    BY <1>1, <2>3, <2>4 DEF Insert, Recorded
<1>2. ASSUME UNCHANGED <<suggestions, versions>>,
             op' = op \/ op'.pc # "mark"
      PROVE  RecordInv'
  BY <1>2 DEF ApprovedIsRecorded, Recorded
<1>3. ASSUME NEW s \in Suggestions, Suggest(s) PROVE RecordInv'
  <2>1. PICK c \in Categories \cup {Null}, t \in Texts \cup {Empty}, n \in BOOLEAN :
          Insert(s, [status |-> "pending", category |-> c, text |-> t, numeric |-> n])
    BY <1>3 DEF Suggest
  <2> QED
    BY <1>1, <2>1 DEF SuggestionRows
<1>4. ASSUME NEW s \in Suggestions, DriftSuggests(s) PROVE RecordInv'
  <2>1. PICK t \in Texts :
          Insert(s, [status |-> "pending", category |-> DriftCategory,
                     text |-> t, numeric |-> FALSE])
    BY <1>4 DEF DriftSuggests
  <2> QED
    BY <1>1, <2>1 DEF SuggestionRows
<1>5. ASSUME NEW s \in Suggestions, Reject(s) PROVE RecordInv'
  <2>1. \A r \in Suggestions : Recorded(r) => Recorded(r)'
    BY <1>0, <1>5, RecordedStays DEF Reject
  <2> QED
    BY <1>0, <1>5, <1>a, <1>b, <2>1 DEF Reject, Idle
<1>6. ASSUME NEW s \in Suggestions, Approve(s) PROVE RecordInv'
  BY <1>2, <1>6 DEF Approve
<1>7. CASE EditRules
  BY <1>2, <1>7 DEF EditRules
<1>8. CASE ListPending
  BY <1>2, <1>8 DEF ListPending
<1>9. ASSUME NEW i \in DOMAIN versions, Rollback(i) PROVE RecordInv'
  BY <1>2, <1>9 DEF Rollback
<1>10. CASE GateBlocks
  BY <1>2, <1>10 DEF GateBlocks, IdleApproval
<1>11. CASE GatePasses
  BY <1>2, <1>11 DEF GatePasses, TypeInv, TypeOK, Approvals
<1>12. CASE InsertVersion
  <2> DEFINE row == [number |-> NextVersion(Label), category |-> Label, old |-> op.old,
                     new |-> Text, suggestion |-> op.suggestion]
  <2>1. row.suggestion = op.suggestion /\ row.new = suggestions[op.suggestion].text
    BY DEF Text
  <2> HIDE DEF row
  <2>2. versions' = Append(versions, row) /\ suggestions' = suggestions
        /\ op'.suggestion = op.suggestion
    BY <1>12 DEF InsertVersion, row, TypeInv, TypeOK, Approvals
  <2>3. /\ \A i \in DOMAIN versions : i \in DOMAIN versions' /\ versions'[i] = versions[i]
        /\ Len(versions) + 1 \in DOMAIN versions'
        /\ versions'[Len(versions) + 1] = row
    BY <1>0, <2>2
  <2>4. \A r \in Suggestions : Recorded(r) => Recorded(r)'
    BY <2>2, <2>3, RecordedStays
  <2>5. ApprovedIsRecorded'
    BY <1>a, <1>b, <2>2, <2>4
  <2>6. Recorded(op.suggestion)'
    BY <2>1, <2>2, <2>3 DEF Recorded
  <2> QED
    BY <2>5, <2>6
<1>13. CASE MarkApproved
  <2>1. \A r \in Suggestions : Recorded(r) => Recorded(r)'
    BY <1>0, <1>13, RecordedStays DEF MarkApproved
  <2>2. Recorded(op.suggestion) /\ op.suggestion \in Suggestions
    BY <1>0, <1>13 DEF MarkApproved, Idle
  <2>3. \A r \in Suggestions : suggestions'[r].status = "approved"
                                => suggestions[r].status = "approved" \/ r = op.suggestion
    BY <1>0, <1>13 DEF MarkApproved
  <2> QED
    BY <1>13, <1>a, <1>b, <2>1, <2>2, <2>3 DEF MarkApproved, IdleApproval
<1>14. CASE ApprovalFails
  BY <1>2, <1>14 DEF ApprovalFails, IdleApproval
<1>15. CASE Restart
  BY <1>2, <1>15 DEF Restart, IdleApproval
<1>16. CASE UNCHANGED vars
  BY <1>2, <1>16 DEF vars
<1> QED
  BY <1>3, <1>4, <1>5, <1>6, <1>7, <1>8, <1>9, <1>10, <1>11, <1>12, <1>13, <1>14,
     <1>15, <1>16 DEF Next

\* Every approved suggestion is on record with its text, whatever failed or
\* restarted during its approval.
THEOREM ApprovalsAreRecorded == Spec => []ApprovedIsRecorded
<1>1. Init => RecordInv
  BY DEF Init, RecordInv, ApprovedIsRecorded, NoSuggestion, IdleApproval
<1>2. Spec => [](TypeInv /\ RecordInv)
  BY <1>1, TypeInit, TypeNext, RecordNext, PTL DEF Spec
<1>3. RecordInv => ApprovedIsRecorded
  BY DEF RecordInv
<1> QED
  BY <1>2, <1>3, PTL

-----------------------------------------------------------------------------
(* The gate.  Once an approval has passed it, the rules in memory change   *)
(* only with a step that ends the approval or gives another answer.        *)

GateInv ==
  /\ ApprovedUnderPassingRules
  /\ op.pc \in {"version", "mark"} => cached # "fail"

LEMMA GateNext == TypeInv /\ GateInv /\ [Next]_vars => GateInv'
<1> SUFFICES ASSUME TypeInv, GateInv, [Next]_vars PROVE GateInv'
  OBVIOUS
<1> USE DEF GateInv, ApprovedUnderPassingRules
<1>0. op \in Approvals
  BY DEF TypeInv, TypeOK
\* A step that keeps the rules in memory, passes no approval through the gate
\* and completes none.
<1>1. ASSUME cached' = cached, outcome' = outcome \/ outcome' # "approved",
             op'.pc = op.pc \/ op'.pc \notin {"version", "mark"}
      PROVE  GateInv'
  BY <1>1
\* A step after which no approval has passed the gate and none is answered.
<1>2. ASSUME outcome' # "approved", op'.pc \notin {"version", "mark"}
      PROVE  GateInv'
  BY <1>2
<1>3. ASSUME NEW s \in Suggestions, Suggest(s) PROVE GateInv'
  BY <1>1, <1>3 DEF Suggest, Insert
<1>4. ASSUME NEW s \in Suggestions, DriftSuggests(s) PROVE GateInv'
  BY <1>1, <1>4 DEF DriftSuggests, Insert
<1>5. ASSUME NEW s \in Suggestions, Reject(s) PROVE GateInv'
  BY <1>1, <1>5 DEF Reject
<1>6. ASSUME NEW s \in Suggestions, Approve(s) PROVE GateInv'
  BY <1>2, <1>6 DEF Approve
<1>7. CASE EditRules
  BY <1>1, <1>7 DEF EditRules
<1>8. CASE ListPending
  BY <1>1, <1>8 DEF ListPending
<1>9. ASSUME NEW i \in DOMAIN versions, Rollback(i) PROVE GateInv'
  BY <1>2, <1>9 DEF Rollback, Idle
<1>10. CASE GateBlocks
  BY <1>2, <1>10 DEF GateBlocks, IdleApproval
<1>11. CASE GatePasses
  BY <1>0, <1>11 DEF GatePasses, HardRegressions, Approvals
<1>12. CASE InsertVersion
  BY <1>0, <1>12 DEF InsertVersion, Approvals
<1>13. CASE MarkApproved
  BY <1>13 DEF MarkApproved, IdleApproval
<1>14. CASE ApprovalFails
  BY <1>1, <1>14 DEF ApprovalFails, IdleApproval
<1>15. CASE Restart
  BY <1>2, <1>15 DEF Restart, IdleApproval
<1>16. CASE UNCHANGED vars
  BY <1>1, <1>16 DEF vars
<1> QED
  BY <1>3, <1>4, <1>5, <1>6, <1>7, <1>8, <1>9, <1>10, <1>11, <1>12, <1>13, <1>14,
     <1>15, <1>16 DEF Next

\* No suggestion is answered as approved under rules that fail the gate.
THEOREM ApprovalsPassTheGate == Spec => []ApprovedUnderPassingRules
<1>1. Init => GateInv
  BY DEF Init, GateInv, ApprovedUnderPassingRules, IdleApproval
<1>2. Spec => [](TypeInv /\ GateInv)
  BY <1>1, TypeInit, TypeNext, GateNext, PTL DEF Spec
<1>3. GateInv => ApprovedUnderPassingRules
  BY DEF GateInv
<1> QED
  BY <1>2, <1>3, PTL

-----------------------------------------------------------------------------
(* Reviews.  A step that writes a suggestion finds it absent or pending:   *)
(* the one that marks it too, although it does not look.                   *)

LEMMA ReviewStep ==
  ASSUME TypeInv, [Next]_vars, NEW s \in Suggestions,
         suggestions[s].status \in {"approved", "rejected"}
  PROVE  suggestions'[s] = suggestions[s]
<1> SUFFICES ASSUME suggestions' # suggestions PROVE suggestions'[s] = suggestions[s]
  OBVIOUS
<1>0. suggestions \in [Suggestions -> SuggestionRows]
  BY DEF TypeInv, TypeOK
<1>1. ASSUME NEW r \in Suggestions, Suggest(r) \/ DriftSuggests(r)
      PROVE  suggestions'[s] = suggestions[s]
  BY <1>0, <1>1 DEF Suggest, DriftSuggests, Insert
<1>2. ASSUME NEW r \in Suggestions, Reject(r)
      PROVE  suggestions'[s] = suggestions[s]
  BY <1>0, <1>2 DEF Reject, Pending
<1>3. CASE MarkApproved
  BY <1>0, <1>3 DEF MarkApproved, TypeInv, ApprovesPending, Idle
<1>4. \/ \E r \in Suggestions : Suggest(r) \/ DriftSuggests(r) \/ Reject(r)
      \/ MarkApproved
  BY DEF Next, Approve, EditRules, ListPending, Rollback, GateBlocks, GatePasses,
         InsertVersion, ApprovalFails, Restart, vars
<1> QED
  BY <1>1, <1>2, <1>3, <1>4

\* A suggestion that was approved or rejected never changes again.
THEOREM ReviewsAreFinal == Spec => ReviewIsFinal
<1>1. TypeInv /\ [Next]_vars
        => [\A s \in Suggestions : suggestions[s].status \in {"approved", "rejected"} =>
              suggestions'[s] = suggestions[s]]_vars
  BY ReviewStep
<1> QED
  BY <1>1, TypeInit, TypeNext, PTL DEF Spec, ReviewIsFinal

-----------------------------------------------------------------------------
(* The numbers.  If the versions of a category are numbered in order, the  *)
(* largest number is how many there are: no other version has more of its  *)
(* category up to it than the last one.  The next number is one more.      *)

\* The places of the versions of category c among the first n.
Places(c, n) == {j \in 1 .. n : versions[j].category = c}

LEMMA PlacesFinite ==
  ASSUME NEW c, NEW n \in Nat
  PROVE  /\ IsFiniteSet(Places(c, n)) /\ Cardinality(Places(c, n)) \in Nat
         /\ \A m \in 1 .. n : Cardinality(Places(c, m)) <= Cardinality(Places(c, n))
<1>1. IsFiniteSet(1 .. n)
  BY FS_Interval
<1>2. Places(c, n) \in SUBSET (1 .. n)
  BY DEF Places
<1>3. IsFiniteSet(Places(c, n))
  BY <1>1, <1>2, FS_Subset
<1>4. \A m \in 1 .. n : Places(c, m) \in SUBSET Places(c, n)
  BY DEF Places
<1> QED
  BY <1>3, <1>4, FS_Subset, FS_CardinalityType

LEMMA NextVersionCounts ==
  ASSUME TypeInv, NumberedInOrder, NEW c
  PROVE  NextVersion(c) = Cardinality(Places(c, Len(versions))) + 1
<1> DEFINE all == Places(c, Len(versions))
<1>1. Len(versions) \in Nat /\ DOMAIN versions = 1 .. Len(versions)
  BY DEF TypeInv, TypeOK
<1>2. /\ \A i \in all : i \in 1 .. Len(versions) /\ versions[i].category = c
      /\ Numbers(c) = {versions[i].number : i \in all}
  BY <1>1 DEF Places, Numbers
<1>3. \A i \in all : versions[i].number = Cardinality(Places(c, i))
  BY <1>1, <1>2 DEF NumberedInOrder, Places
<1>4. CASE all = {}
  BY <1>2, <1>4, FS_EmptySet DEF NextVersion
<1>5. CASE all # {}
  <2>1. all \in SUBSET Nat /\ \A i \in all : i <= Len(versions)
    BY <1>1, <1>2
  <2>2. Max(all) \in all /\ \A i \in all : i <= Max(all)
    BY <1>1, <1>5, <2>1, MaxIsMaximum
  <2>3. Places(c, Max(all)) = all
    <3>1. PICK m \in Nat : m = Max(all) /\ m <= Len(versions)
      BY <2>1, <2>2
    <3>2. \A j : j \in Places(c, m) <=> j \in all
      BY <1>1, <2>1, <2>2, <3>1 DEF Places
    <3> QED
      BY <3>1, <3>2
  <2>4. Cardinality(all) \in Numbers(c)
    BY <1>2, <1>3, <2>2, <2>3
  <2>5. \A n \in Numbers(c) : n \in Nat /\ n <= Cardinality(all)
    <3>1. ASSUME NEW i \in all
          PROVE  /\ Cardinality(Places(c, i)) \in Nat
                 /\ Cardinality(Places(c, i)) <= Cardinality(all)
      BY <1>1, <1>2, <2>1, PlacesFinite
    <3> QED
      BY <1>2, <1>3, <3>1
  <2>6. Max(Numbers(c)) \in Numbers(c) /\ \A n \in Numbers(c) : n <= Max(Numbers(c))
    <3>1. Numbers(c) \in SUBSET Nat /\ Numbers(c) # {} /\ Cardinality(all) \in Nat
      BY <2>4, <2>5
    <3> QED
      BY <2>5, <3>1, MaxIsMaximum
  <2>7. Max(Numbers(c)) = Cardinality(all)
    BY <2>4, <2>5, <2>6
  <2> QED
    BY <2>4, <2>7 DEF NextVersion
<1> QED
  BY <1>4, <1>5

LEMMA NumberedNext == TypeInv /\ NumberedInOrder /\ [Next]_vars => NumberedInOrder'
<1> SUFFICES ASSUME TypeInv, NumberedInOrder, [Next]_vars PROVE NumberedInOrder'
  OBVIOUS
<1>1. CASE UNCHANGED versions
  BY <1>1 DEF NumberedInOrder
<1>2. CASE InsertVersion
  <2> DEFINE n == Len(versions)
             row == [number |-> NextVersion(Label), category |-> Label, old |-> op.old,
                     new |-> Text, suggestion |-> op.suggestion]
  <2>1. row.category = Label /\ row.number = Cardinality(Places(Label, n)) + 1
    BY NextVersionCounts
  <2> HIDE DEF row
  <2>2. versions \in Seq(VersionRows) /\ versions' = Append(versions, row)
    BY <1>2 DEF InsertVersion, row, TypeInv, TypeOK
  <2>3. /\ n \in Nat /\ DOMAIN versions = 1 .. n /\ DOMAIN versions' = 1 .. n + 1
        /\ versions'[n + 1] = row
        /\ \A i \in 1 .. n : versions'[i] = versions[i]
    BY <2>2
  <2>4. ASSUME NEW i \in 1 .. n
        PROVE  versions'[i].number = Cardinality(
                 {j \in 1 .. i : versions'[j].category = versions'[i].category})
    <3>1. {j \in 1 .. i : versions'[j].category = versions'[i].category}
            = {j \in 1 .. i : versions[j].category = versions[i].category}
      BY <2>3
    <3> QED
      BY <2>3, <3>1 DEF NumberedInOrder
  <2>5. row.number = Cardinality({j \in 1 .. n + 1 : versions'[j].category = row.category})
    <3>1. {j \in 1 .. n + 1 : versions'[j].category = row.category}
            = Places(Label, n) \cup {n + 1}
      <4>1. \A j \in 1 .. n + 1 : j \in 1 .. n \/ j = n + 1
        BY <2>3
      <4>2. \A j \in 1 .. n : j \in 1 .. n + 1
        BY <2>3
      <4>3. n + 1 \in 1 .. n + 1 /\ versions'[n + 1].category = row.category
        BY <2>3
      <4>4. \A j \in 1 .. n : versions'[j].category = row.category
                              <=> versions[j].category = Label
        BY <2>1, <2>3
      <4>5. \A j : j \in {i \in 1 .. n + 1 : versions'[i].category = row.category}
                  <=> j \in Places(Label, n) \cup {n + 1}
        BY <4>1, <4>2, <4>3, <4>4 DEF Places
      <4> QED
        BY <4>5
    <3>2. n + 1 \notin Places(Label, n) /\ IsFiniteSet(Places(Label, n))
      <4>1. n + 1 \notin 1 .. n
        BY <2>3
      <4>2. n + 1 \notin Places(Label, n)
        BY <4>1 DEF Places
      <4> QED
        BY <2>3, <4>2, PlacesFinite
    <3> QED
      BY <2>1, <3>1, <3>2, FS_AddElement
  <2>6. ASSUME NEW i \in DOMAIN versions'
        PROVE  versions'[i].number = Cardinality(
                 {j \in 1 .. i : versions'[j].category = versions'[i].category})
    <3>1. i \in 1 .. n \/ i = n + 1
      BY <2>3
    <3> QED
      BY <2>3, <2>4, <2>5, <3>1
  <2> QED
    BY <2>6 DEF NumberedInOrder
<1>3. InsertVersion \/ UNCHANGED versions
  BY DEF Next, Suggest, DriftSuggests, Insert, Reject, Approve, EditRules, ListPending,
         Rollback, GateBlocks, GatePasses, MarkApproved, ApprovalFails, Restart, vars
<1> QED
  BY <1>1, <1>2, <1>3

\* The versions of every category are numbered 1, 2, 3, ... without a gap and
\* without a number given twice, however approvals fail and are made again.
THEOREM VersionsAreNumbered == Spec => []NumberedInOrder
<1>1. Init => NumberedInOrder
  BY DEF Init, NumberedInOrder
<1> QED
  BY <1>1, TypeInit, TypeNext, NumberedNext, PTL DEF Spec
-----------------------------------------------------------------------------
(* The history.  The text of a shipped skill is never empty, so that what  *)
(* a recorded change replaced can be restored, and while a change is not   *)
(* yet recorded the approval's local copy is the text that it replaced.    *)

ShippedHaveText == \A c \in Shipped : skills[c] # Empty

RestorableChanges ==
  \A i \in DOMAIN versions :
    versions[i].category \in Shipped => HasOld(versions[i].old)

OpenChange ==
  op.pc \in {"gate", "version"} /\ Category # Null =>
    /\ op.old \in Contents
    /\ skills[Category] = IF Text = Empty THEN op.old ELSE Text
    /\ Category \in Shipped => op.old # Empty

HistoryInv == ShippedHaveText /\ RestorableChanges /\ OpenChange

\* What the types say of a suggestion's row.
LEMMA RowTypes ==
  ASSUME TypeInv, NEW s \in Suggestions
  PROVE  /\ suggestions[s].category \in Categories \cup {Null}
         /\ suggestions[s].text \in Texts \cup {Empty}
BY DEF TypeInv, TypeOK, SuggestionRows

\* A text that is written is not empty, so no shipped skill becomes empty.
LEMMA WriteKeepsText ==
  ASSUME TypeInv, ShippedHaveText, NEW c, NEW text \in Contents, text # Empty,
         WriteSkill(c, text)
  PROVE  ShippedHaveText'
BY DEF TypeInv, TypeOK, WriteSkill, ShippedHaveText

\* A new row takes the place of an absent one, so not of the open one.
LEMMA InsertKeepsHistory ==
  ASSUME TypeInv, HistoryInv, NEW s \in Suggestions, NEW row, Insert(s, row)
  PROVE  HistoryInv'
<1>1. op.pc \in {"gate", "version"} =>
        suggestions'[op.suggestion] = suggestions[op.suggestion]
  BY DEF TypeInv, TypeOK, ApprovesPending, Idle, Insert
<1>2. UNCHANGED <<versions, skills, op>>
  BY DEF Insert
<1> QED
  BY <1>1, <1>2 DEF HistoryInv, ShippedHaveText, RestorableChanges, OpenChange, Category, Text

LEMMA ApproveKeepsHistory ==
  ASSUME TypeInv, HistoryInv, NEW s \in Suggestions, Approve(s)
  PROVE  HistoryInv'
<1> DEFINE c == suggestions[s].category
           t == suggestions[s].text
<1>1. c \in Categories \cup {Null} /\ t \in Texts \cup {Empty}
  BY RowTypes
<1>2. /\ op'.suggestion = s /\ op'.old = (IF c = Null THEN Null ELSE skills[c])
      /\ UNCHANGED <<suggestions, versions>>
      /\ IF c # Null /\ t # Empty THEN WriteSkill(c, t) ELSE UNCHANGED <<skills, cached>>
  BY DEF Approve, ApplyText
<1>3. Category' = c /\ Text' = t
  BY <1>2 DEF Category, Text
<1> HIDE DEF c, t
<1>4. skills \in [Categories -> Contents]
  BY DEF TypeInv, TypeOK
<1>5. ShippedHaveText'
  <2>1. CASE c # Null /\ t # Empty
    BY <1>1, <1>2, <2>1, WriteKeepsText DEF HistoryInv, Contents
  <2>2. CASE ~(c # Null /\ t # Empty)
    BY <1>2, <2>2 DEF HistoryInv, ShippedHaveText
  <2> QED
    BY <2>1, <2>2
<1>6. RestorableChanges'
  BY <1>2 DEF HistoryInv, RestorableChanges
<1>7. OpenChange'
  <2>1. SUFFICES ASSUME c # Null
                 PROVE  /\ op'.old \in Contents
                        /\ skills'[c] = IF t = Empty THEN op'.old ELSE t
                        /\ c \in Shipped => op'.old # Empty
    BY <1>3 DEF OpenChange
  <2>2. c \in Categories /\ op'.old = skills[c]
    BY <1>1, <1>2, <2>1
  <2>3. c \in Shipped => op'.old # Empty
    BY <2>2 DEF HistoryInv, ShippedHaveText
  <2>4. skills'[c] = IF t = Empty THEN skills[c] ELSE t
    BY <1>2, <1>4, <2>1, <2>2 DEF WriteSkill
  <2> QED
    BY <1>4, <2>2, <2>3, <2>4
<1> QED
  BY <1>5, <1>6, <1>7 DEF HistoryInv

LEMMA RollbackKeepsHistory ==
  ASSUME TypeInv, HistoryInv, NEW i \in DOMAIN versions, Rollback(i)
  PROVE  HistoryInv'
<1>1. op.pc = "idle" /\ UNCHANGED <<versions, op>>
  BY DEF Rollback, Idle
<1>2. ShippedHaveText'
  <2>1. CASE HasOld(versions[i].old)
    <3>1. versions[i] \in VersionRows
      BY DEF TypeInv, TypeOK
    <3>2. versions[i].old \in Contents /\ versions[i].old # Empty
      BY <2>1, <3>1 DEF VersionRows, HasOld
    <3> QED
      BY <2>1, <3>2, WriteKeepsText DEF Rollback, HistoryInv
  <2>2. CASE ~HasOld(versions[i].old)
    BY <2>2 DEF Rollback, HistoryInv, ShippedHaveText
  <2> QED
    BY <2>1, <2>2
<1> QED
  BY <1>1, <1>2 DEF HistoryInv, RestorableChanges, OpenChange

LEMMA BlockKeepsHistory ==
  ASSUME TypeInv, HistoryInv, GateBlocks
  PROVE  HistoryInv'
<1>1. op'.pc = "idle" /\ UNCHANGED versions
  BY DEF GateBlocks, IdleApproval
<1>2. ShippedHaveText'
  <2>1. CASE HasOld(op.old)
    <3>1. op.old \in Contents /\ op.old # Empty
      BY <2>1 DEF TypeInv, TypeOK, Approvals, HasOld
    <3> QED
      BY <2>1, <3>1, WriteKeepsText DEF GateBlocks, HistoryInv
  <2>2. CASE ~HasOld(op.old)
    BY <2>2 DEF GateBlocks, HistoryInv, ShippedHaveText
  <2> QED
    BY <2>1, <2>2
<1> QED
  BY <1>1, <1>2 DEF HistoryInv, RestorableChanges, OpenChange

\* The row that InsertVersion appends: of the suggestion's category, with the
\* text that the change replaced.
LEMMA InsertedRow ==
  ASSUME TypeInv, InsertVersion
  PROVE  \E row :
           /\ versions' = Append(versions, row)
           /\ row.category = Label /\ row.old = op.old /\ row.new = Text
           /\ Len(versions) \in Nat
           /\ DOMAIN versions = 1 .. Len(versions)
           /\ DOMAIN versions' = 1 .. Len(versions) + 1
           /\ versions'[Len(versions) + 1] = row
           /\ \A i \in 1 .. Len(versions) : versions'[i] = versions[i]
<1> DEFINE row == [number |-> NextVersion(Label), category |-> Label, old |-> op.old,
                   new |-> Text, suggestion |-> op.suggestion]
<1>1. row.category = Label /\ row.old = op.old /\ row.new = Text
  OBVIOUS
<1> HIDE DEF row
<1>2. versions \in Seq(VersionRows) /\ versions' = Append(versions, row)
  BY DEF InsertVersion, row, TypeInv, TypeOK
<1> QED
  BY <1>1, <1>2

LEMMA InsertVersionKeepsHistory ==
  ASSUME TypeInv, HistoryInv, InsertVersion
  PROVE  HistoryInv'
<1>1. op.pc = "version" /\ op'.pc = "mark" /\ UNCHANGED <<suggestions, skills>>
  BY DEF InsertVersion, TypeInv, TypeOK, Approvals
<1>2. PICK row :
        /\ row.category = Label /\ row.old = op.old
        /\ DOMAIN versions = 1 .. Len(versions)
        /\ DOMAIN versions' = 1 .. Len(versions) + 1
        /\ Len(versions) \in Nat
        /\ versions'[Len(versions) + 1] = row
        /\ \A i \in 1 .. Len(versions) : versions'[i] = versions[i]
  BY InsertedRow
<1>3. Label \in Shipped => Label = Category /\ Category # Null
  BY DEF Label
<1>4. row.category \in Shipped => HasOld(row.old)
  <2>1. Null \notin Contents
    BY DEF Contents
  <2> QED
    BY <1>1, <1>2, <1>3, <2>1 DEF HistoryInv, OpenChange, HasOld
<1>5. RestorableChanges'
  <2>1. \A i \in DOMAIN versions' : i \in DOMAIN versions \/ i = Len(versions) + 1
    BY <1>2
  <2> QED
    BY <1>2, <1>4, <2>1 DEF HistoryInv, RestorableChanges
<1> QED
  BY <1>1, <1>5 DEF HistoryInv, ShippedHaveText, OpenChange

LEMMA HistoryNext == TypeInv /\ HistoryInv /\ [Next]_vars => HistoryInv'
<1> SUFFICES ASSUME TypeInv, HistoryInv, [Next]_vars PROVE HistoryInv'
  OBVIOUS
<1>1. ASSUME NEW s \in Suggestions, Suggest(s) \/ DriftSuggests(s)
      PROVE  HistoryInv'
  BY <1>1, InsertKeepsHistory DEF Suggest, DriftSuggests
\* A step that writes no file and no version, and ends the approval or leaves
\* it where its change is not recorded.
<1>2. ASSUME UNCHANGED <<versions, skills>>,
             \/ op'.pc \notin {"gate", "version"}
             \/ /\ UNCHANGED suggestions /\ op.pc \in {"gate", "version"}
                /\ op'.suggestion = op.suggestion /\ op'.old = op.old
      PROVE  HistoryInv'
  BY <1>2 DEF HistoryInv, ShippedHaveText, RestorableChanges, OpenChange, Category, Text
<1>3. ASSUME NEW s \in Suggestions, Reject(s) PROVE HistoryInv'
  BY <1>2, <1>3 DEF Reject, Idle
<1>4. CASE EditRules \/ ListPending \/ UNCHANGED vars
  BY <1>2, <1>4 DEF EditRules, ListPending, vars
<1>5. CASE GatePasses
  BY <1>2, <1>5 DEF GatePasses, TypeInv, TypeOK, Approvals
<1>6. CASE MarkApproved \/ ApprovalFails \/ Restart
  BY <1>2, <1>6 DEF MarkApproved, ApprovalFails, Restart, IdleApproval
<1> QED
  BY <1>1, <1>3, <1>4, <1>5, <1>6, ApproveKeepsHistory, RollbackKeepsHistory,
     BlockKeepsHistory, InsertVersionKeepsHistory
  DEF Next

\* The refinement mapping: a change is shown from when it is recorded on, and
\* until then the file has the text that the approval keeps.
Shown(c) == IF Unrecorded(c) THEN op.old ELSE skills[c]

ShownContent == [c \in Shipped |-> Shown(c)]

Change(v) == [category |-> v.category, old |-> v.old, new |-> v.new]

ShippedChanges ==
  {Change(versions[i]) : i \in {j \in DOMAIN versions : versions[j].category \in Shipped}}

LEMMA InitialHistory == Init => History!Init
<1> SUFFICES ASSUME Init PROVE History!Init
  OBVIOUS
<1>1. /\ versions = <<>> /\ faults = 0 /\ op.pc = "idle"
      /\ \A c \in Shipped : skills[c] = Original
  BY DEF Init, IdleApproval
<1>2. ~(faults > 0)
  BY <1>1
<1> QED
  BY <1>1, <1>2 DEF History!Init, Unrecorded

\* A step that shows the same texts and the same changes is none of the history.
LEMMA HistoryStutters ==
  ASSUME faults = 0, faults' = 0, UNCHANGED versions,
         \A c \in Shipped : Shown(c)' = Shown(c)
  PROVE  UNCHANGED History!vars
<1>1. UNCHANGED <<ShownContent, ShippedChanges, faults>>
  BY DEF ShownContent, ShippedChanges
<1> QED
  BY <1>1 DEF History!vars, ShownContent, ShippedChanges, Shown, Change

\* An approval starts: it overwrites the file, and keeps what it overwrites.
LEMMA ApproveIsHidden ==
  ASSUME TypeInv, NEW s \in Suggestions, Approve(s), NEW c \in Shipped
  PROVE  Shown(c)' = Shown(c)
<1>1. /\ op.pc = "idle" /\ op'.pc = "gate" /\ op'.suggestion = s
      /\ UNCHANGED suggestions
      /\ op'.old = IF suggestions[s].category = Null THEN Null
                   ELSE skills[suggestions[s].category]
  BY DEF Approve, Idle
<1>2. Category' = suggestions[s].category /\ c # Null
  BY <1>1 DEF Category
<1>3. c # suggestions[s].category => skills'[c] = skills[c]
  BY DEF Approve, ApplyText, WriteSkill, TypeInv, TypeOK
<1> QED
  BY <1>1, <1>2, <1>3 DEF Shown, Unrecorded

\* The gate blocks: the file is again what was shown.
LEMMA BlockIsHidden ==
  ASSUME TypeInv, HistoryInv, GateBlocks, NEW c \in Shipped
  PROVE  Shown(c)' = Shown(c)
<1>1. op.pc = "gate" /\ op'.pc = "idle"
  BY DEF GateBlocks, IdleApproval
<1>2. skills \in [Categories -> Contents] /\ c \in Categories /\ Null \notin Contents
  BY DEF TypeInv, TypeOK, Contents
<1>3. CASE c = Category
  <2>1. /\ op.old \in Contents /\ op.old # Empty
    BY <1>1, <1>2, <1>3 DEF HistoryInv, OpenChange
  <2>2. skills' = [skills EXCEPT ![c] = op.old]
    BY <1>2, <1>3, <2>1 DEF GateBlocks, HasOld, WriteSkill
  <2> QED
    BY <1>1, <1>2, <1>3, <2>2 DEF Shown, Unrecorded
<1>4. CASE c # Category
  <2>1. skills'[c] = skills[c]
    BY <1>2, <1>4 DEF GateBlocks, WriteSkill
  <2> QED
    BY <1>1, <1>4, <2>1 DEF Shown, Unrecorded
<1> QED
  BY <1>3, <1>4

\* The version is inserted: the change is shown and recorded in one step.
LEMMA InsertVersionApplies ==
  ASSUME TypeInv, HistoryInv, InsertVersion, Category \in Shipped
  PROVE  /\ Text \in Texts \cup {Empty}
         /\ ShippedChanges' = ShippedChanges \cup
              {[category |-> Category, old |-> ShownContent[Category], new |-> Text]}
         /\ ShownContent' = IF Text = Empty THEN ShownContent
                            ELSE [ShownContent EXCEPT ![Category] = Text]
<1>1. /\ op.pc = "version" /\ op'.pc = "mark" /\ op.suggestion \in Suggestions
      /\ UNCHANGED <<suggestions, skills>>
  BY DEF InsertVersion, TypeInv, TypeOK, Approvals, ApprovesPending, Idle
<1>2. Text \in Texts \cup {Empty}
  BY <1>1, RowTypes DEF Text
<1>3. Category # Null /\ Label = Category
  BY DEF Label
<1>4. ShownContent[Category] = op.old
  BY <1>1 DEF ShownContent, Shown, Unrecorded
<1>5. skills[Category] = IF Text = Empty THEN op.old ELSE Text
  BY <1>1, <1>3 DEF HistoryInv, OpenChange
<1>6. ShippedChanges' = ShippedChanges \cup
        {[category |-> Category, old |-> ShownContent[Category], new |-> Text]}
  <2>1. PICK row :
          /\ row.category = Label /\ row.old = op.old /\ row.new = Text
          /\ DOMAIN versions = 1 .. Len(versions)
          /\ DOMAIN versions' = 1 .. Len(versions) + 1
          /\ Len(versions) \in Nat
          /\ versions'[Len(versions) + 1] = row
          /\ \A i \in 1 .. Len(versions) : versions'[i] = versions[i]
    BY InsertedRow
  <2>2. PICK n \in Nat : n = Len(versions)
    BY <2>1
  <2>3. DOMAIN versions' = DOMAIN versions \cup {n + 1}
    BY <2>1, <2>2
  <2>4. ShippedChanges' = ShippedChanges \cup {Change(row)}
    BY <1>3, <2>1, <2>2, <2>3 DEF ShippedChanges
  <2> QED
    BY <1>3, <1>4, <2>1, <2>4 DEF Change
<1>7. \A c \in Shipped : Shown(c)' = IF c = Category THEN skills[c] ELSE Shown(c)
  BY <1>1 DEF Shown, Unrecorded
<1>8. ShownContent' = IF Text = Empty THEN ShownContent
                      ELSE [ShownContent EXCEPT ![Category] = Text]
  BY <1>4, <1>5, <1>7 DEF ShownContent
<1> QED
  BY <1>2, <1>6, <1>8

\* A version of no shipped skill is recorded elsewhere.
LEMMA InsertVersionElsewhere ==
  ASSUME TypeInv, InsertVersion, Category \notin Shipped
  PROVE  UNCHANGED <<ShippedChanges, ShownContent>>
<1>1. op.pc = "version" /\ op'.pc = "mark" /\ UNCHANGED <<suggestions, skills>>
  BY DEF InsertVersion, TypeInv, TypeOK, Approvals
<1>2. Label \notin Shipped
  BY DEF Label
<1>3. UNCHANGED ShippedChanges
  <2>1. PICK row :
          /\ row.category = Label
          /\ DOMAIN versions = 1 .. Len(versions)
          /\ DOMAIN versions' = 1 .. Len(versions) + 1
          /\ Len(versions) \in Nat
          /\ versions'[Len(versions) + 1] = row
          /\ \A i \in 1 .. Len(versions) : versions'[i] = versions[i]
    BY InsertedRow
  <2>2. {j \in DOMAIN versions' : versions'[j].category \in Shipped}
          = {j \in DOMAIN versions : versions[j].category \in Shipped}
    BY <1>2, <2>1
  <2>3. \A i \in {j \in DOMAIN versions : versions[j].category \in Shipped} :
          versions'[i] = versions[i]
    BY <2>1
  <2> QED
    BY <2>2, <2>3 DEF ShippedChanges
<1>4. \A c \in Shipped : Shown(c)' = Shown(c)
  BY <1>1 DEF Shown, Unrecorded
<1> QED
  BY <1>3, <1>4 DEF ShownContent

\* A rollback of a version of a shipped skill restores a recorded change.
LEMMA RollbackRestores ==
  ASSUME TypeInv, HistoryInv, NEW i \in DOMAIN versions, Rollback(i),
         versions[i].category \in Shipped
  PROVE  /\ Change(versions[i]) \in ShippedChanges
         /\ ShippedChanges' = ShippedChanges
         /\ ShownContent' =
              [ShownContent EXCEPT ![versions[i].category] = versions[i].old]
<1>1. /\ op.pc = "idle" /\ UNCHANGED <<versions, op>>
      /\ skills' = [skills EXCEPT ![versions[i].category] = versions[i].old]
  BY DEF Rollback, Idle, HistoryInv, RestorableChanges, WriteSkill
<1>2. skills \in [Categories -> Contents]
  BY DEF TypeInv, TypeOK
<1>3. \A c \in Shipped : Shown(c) = skills[c] /\ Shown(c)' = skills'[c]
  BY <1>1 DEF Shown, Unrecorded
<1>4. ShownContent' = [ShownContent EXCEPT ![versions[i].category] = versions[i].old]
  BY <1>1, <1>2, <1>3 DEF ShownContent
<1> QED
  BY <1>1, <1>4 DEF ShippedChanges

\* A rollback of another version touches no shipped skill.
LEMMA RollbackElsewhere ==
  ASSUME TypeInv, NEW i \in DOMAIN versions, Rollback(i),
         versions[i].category \notin Shipped, NEW c \in Shipped
  PROVE  Shown(c)' = Shown(c)
<1>1. op.pc = "idle" /\ op' = op
  BY DEF Rollback, Idle
<1>2. skills'[c] = skills[c]
  BY DEF Rollback, WriteSkill, TypeInv, TypeOK
<1> QED
  BY <1>1, <1>2 DEF Shown, Unrecorded

LEMMA HistoryStep ==
  TypeInv /\ HistoryInv /\ [Next]_vars => [History!Next]_(History!vars)
<1> SUFFICES ASSUME TypeInv, HistoryInv, [Next]_vars
             PROVE  History!Next \/ UNCHANGED History!vars
  OBVIOUS
<1>0. faults \in Nat
  BY DEF TypeInv, TypeOK
\* From the first failure on nothing is promised.
<1>1. CASE faults' > 0
  BY <1>1 DEF History!Next
<1>2. faults' \in Nat /\ faults' >= faults
  BY <1>0
  DEF Next, Suggest, DriftSuggests, Insert, Reject, Approve, EditRules, ListPending,
      Rollback, GateBlocks, GatePasses, InsertVersion, MarkApproved, ApprovalFails,
      Restart, vars
<1>3. CASE faults = 0 /\ faults' = 0
  <2>1. ASSUME NEW s \in Suggestions, Suggest(s) \/ DriftSuggests(s)
        PROVE  UNCHANGED History!vars
    <3>1. UNCHANGED <<versions, skills, op>>
      BY <2>1 DEF Suggest, DriftSuggests, Insert
    <3>2. op.pc \in {"gate", "version"} =>
            suggestions'[op.suggestion] = suggestions[op.suggestion]
      BY <2>1 DEF TypeInv, TypeOK, ApprovesPending, Idle, Suggest, DriftSuggests, Insert
    <3>3. \A c \in Shipped : Shown(c)' = Shown(c)
      BY <3>1, <3>2 DEF Shown, Unrecorded, Category
    <3> QED
      BY <1>3, <3>1, <3>3, HistoryStutters
  \* A step that touches neither the files nor an approval that goes on.
  <2>2. ASSUME UNCHANGED <<versions, skills>>,
               \/ op.pc \notin {"gate", "version"} /\ op'.pc \notin {"gate", "version"}
               \/ /\ op.pc \in {"gate", "version"} /\ op'.pc \in {"gate", "version"}
                  /\ op'.suggestion = op.suggestion /\ op'.old = op.old
                  /\ UNCHANGED suggestions
        PROVE  UNCHANGED History!vars
    <3>1. \A c \in Shipped : Shown(c)' = Shown(c)
      BY <2>2 DEF Shown, Unrecorded, Category
    <3> QED
      BY <1>3, <2>2, <3>1, HistoryStutters
  <2>3. ASSUME NEW s \in Suggestions, Reject(s) PROVE UNCHANGED History!vars
    BY <2>2, <2>3 DEF Reject, Idle
  <2>4. CASE EditRules \/ ListPending \/ UNCHANGED vars
    BY <2>2, <2>4 DEF EditRules, ListPending, vars
  <2>5. CASE GatePasses
    BY <2>2, <2>5 DEF GatePasses, TypeInv, TypeOK, Approvals
  <2>6. CASE MarkApproved
    BY <2>2, <2>6 DEF MarkApproved, IdleApproval
  <2>7. ASSUME NEW s \in Suggestions, Approve(s) PROVE UNCHANGED History!vars
    <3>1. UNCHANGED versions
      BY <2>7 DEF Approve
    <3> QED
      BY <1>3, <2>7, <3>1, ApproveIsHidden, HistoryStutters
  <2>8. CASE GateBlocks
    <3>1. UNCHANGED versions
      BY <2>8 DEF GateBlocks
    <3> QED
      BY <1>3, <2>8, <3>1, BlockIsHidden, HistoryStutters
  <2>9. CASE InsertVersion
    <3>1. CASE Category \in Shipped
      <4>1. \E c \in Shipped, t \in Texts \cup {Empty} : History!Apply(c, t)
        BY <1>3, <2>9, <3>1, InsertVersionApplies
        DEF History!Apply, ShownContent, ShippedChanges, Shown, Change
      <4> QED
        BY <4>1 DEF History!Next
    <3>2. CASE Category \notin Shipped
      BY <1>3, <2>9, <3>2, InsertVersionElsewhere
      DEF History!vars, ShownContent, ShippedChanges, Shown, Change
    <3> QED
      BY <3>1, <3>2
  <2>10. ASSUME NEW i \in DOMAIN versions, Rollback(i)
         PROVE  History!Next \/ UNCHANGED History!vars
    <3>1. UNCHANGED versions
      BY <2>10 DEF Rollback
    <3>2. CASE versions[i].category \in Shipped
      <4>1. PICK change : change = Change(versions[i])
        OBVIOUS
      <4>2. change \in ShippedChanges
        BY <2>10, <3>2, <4>1, RollbackRestores
      <4>3. History!Restore(change)
        BY <1>3, <2>10, <3>2, <4>1, RollbackRestores
        DEF History!Restore, ShownContent, ShippedChanges, Shown, Change
      <4>4. \E h \in ShippedChanges : History!Restore(h)
        BY <4>2, <4>3
      <4> QED
        BY <4>4 DEF History!Next, ShippedChanges, Change
    <3>3. CASE versions[i].category \notin Shipped
      BY <1>3, <2>10, <3>1, <3>3, RollbackElsewhere, HistoryStutters
    <3> QED
      BY <3>2, <3>3
  <2>11. ~ApprovalFails /\ ~Restart
    BY <1>3 DEF ApprovalFails, Restart
  <2> QED
    BY <2>1, <2>3, <2>4, <2>5, <2>6, <2>7, <2>8, <2>9, <2>10, <2>11 DEF Next
<1> QED
  BY <1>0, <1>1, <1>2, <1>3

\* As long as no request is interrupted, the approval gate implements the
\* history of the shipped skills: a change takes effect when it is recorded, a
\* blocked one leaves no trace, and a rollback restores a text on record.
THEOREM GateKeepsHistory == Spec => HistorySpec
<1>1. Init => HistoryInv
  BY DEF Init, HistoryInv, ShippedHaveText, RestorableChanges, OpenChange, IdleApproval
<1> QED
  BY <1>1, TypeInit, TypeNext, HistoryNext, InitialHistory, HistoryStep, PTL
  DEF Spec, HistorySpec, History!Spec

-----------------------------------------------------------------------------
(* The text that a skill shipped with.  The first version of a skill       *)
(* replaces it, and every later one finds it on record; only an            *)
(* interrupted approval could change the file without a version.           *)

OnRecord(c) ==
  \E i \in DOMAIN versions : versions[i].category = c /\ versions[i].old = Original

HasVersions(c) == \E i \in DOMAIN versions : versions[i].category = c

Replaces(c) == op.pc \in {"gate", "version"} /\ Category = c

KeptOf(c) ==
  \/ OnRecord(c)
  \/ ~HasVersions(c) /\ IF Replaces(c) THEN op.old = Original ELSE skills[c] = Original

KeptInv == faults = 0 => \A c \in Shipped : KeptOf(c)

LEMMA KeptImplies == KeptInv => (faults = 0 => OriginalRecoverable)
BY DEF KeptInv, KeptOf, OnRecord, Replaces, Idle, OriginalRecoverable

\* A step that leaves the versions and the skill, and the open approval, alone.
LEMMA KeptUnchanged ==
  ASSUME NEW c, KeptOf(c), UNCHANGED <<versions, skills>>,
         Replaces(c)' = Replaces(c), op'.old = op.old
  PROVE  KeptOf(c)'
BY DEF KeptOf, OnRecord, HasVersions

LEMMA KeptNext == TypeInv /\ KeptInv /\ [Next]_vars => KeptInv'
<1> SUFFICES ASSUME TypeInv, KeptInv, [Next]_vars, faults' = 0, NEW c \in Shipped
             PROVE  KeptOf(c)'
  BY DEF KeptInv
<1>1. skills \in [Categories -> Contents] /\ c \in Categories /\ c # Null /\ op \in Approvals
  <2>1. c \in Categories /\ c # Null
    OBVIOUS
  <2> QED
    BY <2>1 DEF TypeInv, TypeOK
<1>2. faults \in Nat
  BY DEF TypeInv, TypeOK
<1>3. faults = 0 /\ ~ApprovalFails /\ ~Restart
  BY <1>2 DEF Next, Suggest, DriftSuggests, Insert, Reject, Approve, EditRules,
       ListPending, Rollback, GateBlocks, GatePasses, InsertVersion, MarkApproved,
       ApprovalFails, Restart, vars
<1>4. KeptOf(c)
  BY <1>3 DEF KeptInv
<1>5. ASSUME NEW s \in Suggestions, Suggest(s) \/ DriftSuggests(s) \/ Reject(s)
      PROVE  KeptOf(c)'
  <2>1. op.pc \in {"gate", "version"} =>
          suggestions'[op.suggestion] = suggestions[op.suggestion]
    BY <1>5 DEF TypeInv, TypeOK, ApprovesPending, Idle, Insert, Suggest, DriftSuggests, Reject
  <2>2. UNCHANGED <<versions, skills, op>>
    BY <1>5 DEF Insert, Suggest, DriftSuggests, Reject
  <2> QED
    BY <1>4, <2>1, <2>2 DEF KeptOf, OnRecord, HasVersions, Replaces, Category
<1>6. ASSUME NEW s \in Suggestions, Approve(s)
      PROVE  KeptOf(c)'
  <2> DEFINE d == suggestions[s].category
  <2>1. /\ ~Replaces(c) /\ UNCHANGED <<suggestions, versions>>
        /\ op'.pc = "gate" /\ op'.suggestion = s
        /\ op'.old = IF d = Null THEN Null ELSE skills[d]
    BY <1>6 DEF Approve, Idle, Replaces
  <2>2. Replaces(c)' <=> d = c
    BY <2>1 DEF Replaces, Category
  <2>3. d # c => skills'[c] = skills[c]
    BY <1>1, <1>6 DEF Approve, ApplyText, WriteSkill
  <2>4. d = c => op'.old = skills[c]
    BY <1>1, <2>1
  <2> QED
    BY <1>4, <2>1, <2>2, <2>3, <2>4 DEF KeptOf, OnRecord, HasVersions
<1>7. CASE EditRules \/ ListPending \/ GatePasses \/ UNCHANGED vars
  <2>1. UNCHANGED <<suggestions, versions, skills>> /\ op'.old = op.old
        /\ op'.suggestion = op.suggestion
        /\ (op'.pc \in {"gate", "version"} <=> op.pc \in {"gate", "version"})
    BY <1>1, <1>7 DEF EditRules, ListPending, GatePasses, Approvals, vars
  <2> QED
    BY <1>4, <2>1 DEF KeptOf, OnRecord, HasVersions, Replaces, Category
<1>8. ASSUME NEW i \in DOMAIN versions, Rollback(i)
      PROVE  KeptOf(c)'
  <2>1. UNCHANGED <<suggestions, versions, op>> /\ ~Replaces(c)
    BY <1>8 DEF Rollback, Idle, Replaces
  <2>2. versions[i].category # c => skills'[c] = skills[c]
    BY <1>1, <1>8 DEF Rollback, WriteSkill
  <2>3. versions[i].category = c => OnRecord(c)
    BY <1>4 DEF KeptOf, HasVersions
  <2> QED
    BY <1>4, <2>1, <2>2, <2>3 DEF KeptOf, OnRecord, HasVersions, Replaces, Category
<1>9. CASE GateBlocks
  <2>1. UNCHANGED versions /\ ~Replaces(c)' /\ op.pc = "gate"
    BY <1>9 DEF GateBlocks, Replaces, IdleApproval
  <2>2. Category # c => skills'[c] = skills[c]
    BY <1>1, <1>9 DEF GateBlocks, WriteSkill
  <2>3. Category = c /\ op.old = Original => skills'[c] = Original
    <3>1. Original \notin {Null, Empty}
      OBVIOUS
    <3> QED
      BY <1>1, <1>9, <3>1 DEF GateBlocks, WriteSkill, HasOld
  <2> QED
    BY <1>4, <2>1, <2>2, <2>3 DEF KeptOf, OnRecord, HasVersions, Replaces
<1>10. CASE InsertVersion
  <2>1. versions \in Seq(VersionRows)
    BY DEF TypeInv, TypeOK
  <2>2. PICK row : row.category = Label /\ row.old = op.old /\ versions' = Append(versions, row)
    BY <1>10 DEF InsertVersion
  <2>3. /\ DOMAIN versions' = DOMAIN versions \cup {Len(versions) + 1}
        /\ versions'[Len(versions) + 1] = row
        /\ \A i \in DOMAIN versions : versions'[i] = versions[i]
    BY <2>1, <2>2
  <2>4. op.pc = "version" /\ op'.pc = "mark" /\ UNCHANGED <<suggestions, skills>>
    BY <1>1, <1>10 DEF InsertVersion, Approvals
  <2>5. ~Replaces(c)'
    BY <2>4 DEF Replaces
  <2>6. OnRecord(c) => OnRecord(c)'
    BY <2>3 DEF OnRecord
  <2>7. CASE Category = c
    <3>1. Replaces(c) /\ Label = c
      BY <1>1, <2>4, <2>7, CategoriesAssumption DEF Replaces, Label
    <3>2. op.old = Original => OnRecord(c)'
      BY <2>2, <2>3, <3>1 DEF OnRecord
    <3> QED
      BY <1>4, <2>6, <3>1, <3>2 DEF KeptOf
  <2>8. CASE Category # c
    <3>1. Label # c
      BY <1>1, <2>8, CategoriesAssumption DEF Label
    <3>2. HasVersions(c)' => HasVersions(c)
      BY <2>2, <2>3, <3>1 DEF HasVersions
    <3> QED
      BY <1>4, <2>4, <2>5, <2>6, <2>8, <3>2 DEF KeptOf, Replaces
  <2> QED
    BY <2>7, <2>8
<1>11. CASE MarkApproved
  <2>1. UNCHANGED <<versions, skills>> /\ ~Replaces(c) /\ ~Replaces(c)'
    BY <1>11 DEF MarkApproved, Replaces, IdleApproval
  <2> QED
    BY <1>4, <2>1 DEF KeptOf, OnRecord, HasVersions
<1> QED
  BY <1>3, <1>5, <1>6, <1>7, <1>8, <1>9, <1>10, <1>11 DEF Next

\* As long as no approval is interrupted, the text a skill shipped with is in its
\* file or in a version that can be rolled back to, whatever is approved, blocked
\* and rolled back: it takes a failure between the file and the version to lose it.
THEOREM UninterruptedKeepsOriginal == Spec => [](faults = 0 => OriginalRecoverable)
<1>1. ASSUME Init PROVE KeptInv
  <2>1. DOMAIN versions = {} /\ op.pc = "idle"
    BY <1>1 DEF Init, IdleApproval
  <2>2. \A c \in Shipped : skills[c] = Original
    BY <1>1 DEF Init
  <2> QED
    BY <2>1, <2>2 DEF KeptInv, KeptOf, HasVersions, Replaces
<1> QED
  BY <1>1, TypeInit, TypeNext, KeptNext, KeptImplies, PTL DEF Spec
=============================================================================

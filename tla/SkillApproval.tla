---------------------------- MODULE SkillApproval ----------------------------
(***************************************************************************)
(* The human approval gate of the learning loop: suggestions (table        *)
(* policy_suggestions), the skill files, the record of their changes       *)
(* (table policy_versions), the eval gate and the drift check.             *)
(*                                                                         *)
(* The admin endpoints never await, so one runs at a time; what can come   *)
(* between two of their steps is a failing call, a restart, an edit of the *)
(* rule file or the drift check's thread.  The eval gate runs the golden   *)
(* dataset against the rules held in memory: no skill text enters into it. *)
(***************************************************************************)
EXTENDS Naturals, Sequences, FiniteSetsExt

CONSTANTS
  Suggestions,    \* rows policy_suggestions can come to hold
  Categories,     \* what can stand before the "|" of a failure pattern
  Shipped,        \* the categories that have a skill file in the repository
  DriftCategory,  \* "DRIFT_DETECTED"
  Texts,          \* suggested texts
  Original,       \* the text of a shipped skill file
  Empty,          \* the empty string
  Null,
  MaxFaults       \* bound of the exploration

ASSUME CategoriesAssumption ==
  /\ Shipped \subseteq Categories
  /\ DriftCategory \in Categories \ Shipped
  /\ Null \notin Categories /\ "GENERAL" \notin Categories
ASSUME TextsAssumption ==
  /\ Texts \cap {Original, Empty, Null} = {}
  /\ Original # Empty /\ Original # Null /\ Empty # Null
ASSUME BoundAssumption == MaxFaults \in Nat

VARIABLES
  suggestions,  \* table policy_suggestions
  versions,     \* table policy_versions, in the order of insertion
  skills,       \* the skill files; Empty where there is none
  disk,         \* what the gate says of the policy_rules.json on disk ...
  cached,       \* ... and of the rules that load_policy_rules has in memory
  op,           \* the approval between two of its steps
  outcome,      \* what the last request was answered
  faults        \* failures so far

vars == <<suggestions, versions, skills, disk, cached, op, outcome, faults>>

-----------------------------------------------------------------------------
Verdicts == {"pass", "warn", "fail"}

Contents == Texts \cup {Original, Empty}

\* numeric: the confidence can be read as a float.
SuggestionRows == [status   : {"absent", "pending", "approved", "rejected"},
                   category : Categories \cup {Null},
                   text     : Texts \cup {Empty},
                   numeric  : BOOLEAN]

NoSuggestion ==
  [status |-> "absent", category |-> Null, text |-> Empty, numeric |-> TRUE]

VersionRows == [number     : Nat \ {0},
                category   : Categories \cup {"GENERAL"},
                old        : Contents \cup {Null},
                new        : Texts \cup {Empty},
                suggestion : Suggestions]

\* The local variables of approve_suggestion: the suggestion, old_content and
\* the status of before_eval.
Approvals == [pc         : {"idle", "gate", "version", "mark"},
              suggestion : Suggestions \cup {Null},
              old        : Contents \cup {Null},
              before     : Verdicts]

IdleApproval ==
  [pc |-> "idle", suggestion |-> Null, old |-> Null, before |-> "pass"]

Outcomes == {"none", "listed", "approved", "blocked", "rejected", "rolled_back",
             "http_500"}

TypeOK ==
  /\ suggestions \in [Suggestions -> SuggestionRows]
  /\ versions    \in Seq(VersionRows)
  /\ skills      \in [Categories -> Contents]
  /\ disk        \in Verdicts
  /\ cached      \in Verdicts
  /\ op          \in Approvals
  /\ outcome     \in Outcomes
  /\ faults      \in 0 .. MaxFaults

Init ==
  /\ suggestions = [s \in Suggestions |-> NoSuggestion]
  /\ versions    = <<>>
  /\ skills      = [c \in Categories |-> IF c \in Shipped THEN Original ELSE Empty]
  /\ disk        = "pass"
  /\ cached      = "pass"
  /\ op          = IdleApproval
  /\ outcome     = "none"
  /\ faults      = 0

-----------------------------------------------------------------------------
(* Where suggestions come from.                                            *)

Idle == op.pc = "idle"

Insert(s, row) ==
  /\ suggestions[s].status = "absent"
  /\ suggestions' = [suggestions EXCEPT ![s] = row]
  /\ outcome' = "none"
  /\ UNCHANGED <<versions, skills, disk, cached, op, faults>>

\* The nightly analysis inserts what the model returned: its failure pattern
\* may have any category in front, or none, and its confidence is any value.
\* The rows of the timeline calibration are among these.
Suggest(s) ==
  /\ Idle
  /\ \E c \in Categories \cup {Null}, t \in Texts \cup {Empty}, n \in BOOLEAN :
       Insert(s, [status |-> "pending", category |-> c, text |-> t, numeric |-> n])

\* run_drift_check, on its thread, between any two steps of a request: its
\* gate and its insert are one step here, as nothing looks at the row's cause.
\* The confidence is "high" or "medium".
DriftSuggests(s) ==
  /\ cached # "pass"
  /\ \E t \in Texts :
       Insert(s, [status |-> "pending", category |-> DriftCategory,
                  text |-> t, numeric |-> FALSE])

\* A deployment or a maintainer changes policy_rules.json on disk.
EditRules ==
  /\ disk' \in Verdicts \ {disk}
  /\ outcome' = "none"
  /\ UNCHANGED <<suggestions, versions, skills, cached, op, faults>>

-----------------------------------------------------------------------------
(* Listing, rejecting and rolling back.                                    *)

\* Mutant: an approved suggestion can be reviewed again.
PendingOrApproved(s) == suggestions[s].status \in {"pending", "approved"}

Pending(s) == suggestions[s].status = "pending"

\* float(confidence) raises on the first row that is not a number.
ListPending ==
  /\ Idle
  /\ outcome' = IF \A s \in Suggestions : Pending(s) => suggestions[s].numeric
                THEN "listed" ELSE "http_500"
  /\ UNCHANGED <<suggestions, versions, skills, disk, cached, op, faults>>

Reject(s) ==
  /\ Idle /\ Pending(s)
  /\ suggestions' = [suggestions EXCEPT ![s].status = "rejected"]
  /\ outcome' = "rejected"
  /\ UNCHANGED <<versions, skills, disk, cached, op, faults>>

\* update_skill_file and reload_policy_rules.
WriteSkill(c, text) ==
  /\ skills' = [skills EXCEPT ![c] = text]
  /\ cached' = disk

\* The test on old_content: there is a category and its file was not empty.
HasOld(old) == old \notin {Null, Empty}

Rollback(i) ==
  /\ Idle
  /\ IF HasOld(versions[i].old)
     THEN WriteSkill(versions[i].category, versions[i].old)
     ELSE UNCHANGED <<skills, cached>>
  /\ outcome' = "rolled_back"
  /\ UNCHANGED <<suggestions, versions, disk, op, faults>>

-----------------------------------------------------------------------------
(* Approving: write the skill, run the gate, record the version, mark the  *)
(* suggestion.                                                             *)

Category == suggestions[op.suggestion].category
Text     == suggestions[op.suggestion].text

ApplyText(s) ==
  LET c == suggestions[s].category  t == suggestions[s].text IN
  IF c # Null /\ t # Empty THEN WriteSkill(c, t) ELSE UNCHANGED <<skills, cached>>

Approve(s) ==
  /\ Idle /\ Pending(s)
  /\ op' = [pc |-> "gate", suggestion |-> s, before |-> cached,
            old |-> IF suggestions[s].category = Null THEN Null
                    ELSE skills[suggestions[s].category]]
  /\ ApplyText(s)
  /\ outcome' = "none"
  /\ UNCHANGED <<suggestions, versions, disk, faults>>

\* Mutant: the gate's result is the one from before the change.
HardRegressionsBefore == op.before = "fail"

HardRegressions == cached = "fail"

\* Mutant: the change stays when the gate blocks it.
GateBlocksOnly ==
  /\ op.pc = "gate" /\ HardRegressions
  /\ op' = IdleApproval
  /\ outcome' = "blocked"
  /\ UNCHANGED <<suggestions, versions, skills, disk, cached, faults>>

GateBlocks ==
  /\ op.pc = "gate" /\ HardRegressions
  /\ IF HasOld(op.old) THEN WriteSkill(Category, op.old)
                       ELSE UNCHANGED <<skills, cached>>
  /\ op' = IdleApproval
  /\ outcome' = "blocked"
  /\ UNCHANGED <<suggestions, versions, disk, faults>>

\* Mutant: the suggestion is marked before the version is inserted.
GatePassesMarks ==
  /\ op.pc = "gate" /\ ~HardRegressions
  /\ op' = [op EXCEPT !.pc = "version"]
  /\ suggestions' = [suggestions EXCEPT ![op.suggestion].status = "approved"]
  /\ UNCHANGED <<versions, skills, disk, cached, outcome, faults>>

GatePasses ==
  /\ op.pc = "gate" /\ ~HardRegressions
  /\ op' = [op EXCEPT !.pc = "version"]
  /\ UNCHANGED <<suggestions, versions, skills, disk, cached, outcome, faults>>

Label == IF Category = Null THEN "GENERAL" ELSE Category

Numbers(c) ==
  {versions[i].number : i \in {j \in DOMAIN versions : versions[j].category = c}}

\* Mutant: the first version of a category is number 0.
NextVersionFromZero(c) == IF Numbers(c) = {} THEN 0 ELSE Max(Numbers(c)) + 1

\* Mutant: the newest row counts, of whatever category.
NextVersionOfAny(c) ==
  IF versions = <<>> THEN 1 ELSE versions[Len(versions)].number + 1

NextVersion(c) == IF Numbers(c) = {} THEN 1 ELSE Max(Numbers(c)) + 1

InsertVersion ==
  /\ op.pc = "version"
  /\ versions' = Append(versions,
       [number |-> NextVersion(Label), category |-> Label, old |-> op.old,
        new |-> Text, suggestion |-> op.suggestion])
  /\ op' = [op EXCEPT !.pc = "mark"]
  /\ UNCHANGED <<suggestions, skills, disk, cached, outcome, faults>>

MarkApproved ==
  /\ op.pc = "mark"
  /\ suggestions' = [suggestions EXCEPT ![op.suggestion].status = "approved"]
  /\ outcome' = "approved"
  /\ op' = IdleApproval
  /\ UNCHANGED <<versions, skills, disk, cached, faults>>

\* A call raises: the request ends with a 500 and nothing is undone.
ApprovalFails ==
  /\ ~Idle /\ faults < MaxFaults
  /\ faults' = faults + 1
  /\ op' = IdleApproval
  /\ outcome' = "http_500"
  /\ UNCHANGED <<suggestions, versions, skills, disk, cached>>

\* The process restarts and loads the rules again (at their first use: nothing
\* reads them before).
Restart ==
  /\ faults < MaxFaults
  /\ faults' = faults + 1
  /\ op' = IdleApproval
  /\ cached' = disk
  /\ outcome' = "none"
  /\ UNCHANGED <<suggestions, versions, skills, disk>>

-----------------------------------------------------------------------------
Next ==
  \/ \E s \in Suggestions : Suggest(s) \/ DriftSuggests(s) \/ Reject(s) \/ Approve(s)
  \/ EditRules \/ ListPending
  \/ \E i \in DOMAIN versions : Rollback(i)
  \/ GateBlocks \/ GatePasses \/ InsertVersion \/ MarkApproved
  \/ ApprovalFails \/ Restart

Spec == Init /\ [][Next]_vars

-----------------------------------------------------------------------------
(* Properties.                                                             *)

\* An approved suggestion is on record in policy_versions, with its text,
\* whatever fails or restarts between the insert and the mark.
ApprovedIsRecorded ==
  \A s \in Suggestions : suggestions[s].status = "approved" =>
    \E i \in DOMAIN versions :
      versions[i].suggestion = s /\ versions[i].new = suggestions[s].text

\* The versions of a category are numbered 1, 2, 3, ... in the order in which
\* they were inserted, also when a failed approval is made again.
NumberedInOrder ==
  \A i \in DOMAIN versions :
    versions[i].number =
      Cardinality({j \in 1 .. i : versions[j].category = versions[i].category})

\* A suggestion is approved only under rules that the gate passes, although
\* the approval itself brings the rules on disk into memory.
ApprovedUnderPassingRules == outcome = "approved" => cached # "fail"

\* A reviewed suggestion keeps its review: it is neither approved nor
\* rejected a second time, also by a request that came in while it was open.
ReviewIsFinal ==
  [][\A s \in Suggestions : suggestions[s].status \in {"approved", "rejected"} =>
       suggestions'[s] = suggestions[s]]_vars

\* As long as no request is interrupted, the gate implements the abstract
\* history of the shipped skills: a change takes effect when it is recorded, a
\* blocked change leaves no trace, and a rollback restores what was recorded.
Unrecorded(c) == op.pc \in {"gate", "version"} /\ Category = c

History == INSTANCE SkillHistory WITH
  Skills      <- Shipped,
  content     <- [c \in Shipped |-> IF Unrecorded(c) THEN op.old ELSE skills[c]],
  recorded    <- {[category |-> versions[i].category, old |-> versions[i].old,
                   new |-> versions[i].new] :
                    i \in {j \in DOMAIN versions : versions[j].category \in Shipped}},
  interrupted <- faults > 0

HistorySpec == History!Spec

-----------------------------------------------------------------------------
(* What comments say and the code does not do.                             *)

\* "Approval atomically updates both the skill file and logs to policy_versions"
\* (admin_api): between approvals, the text a skill shipped with is in its file
\* or in a version that can be rolled back to.
OriginalRecoverable ==
  Idle => \A c \in Shipped :
    \/ skills[c] = Original
    \/ \E i \in DOMAIN versions :
         versions[i].category = c /\ versions[i].old = Original
=============================================================================

---------------------------- MODULE SkillHistory ----------------------------
(***************************************************************************)
(* What the approval gate promises of the skill files: a change and its    *)
(* record happen together, and whatever was recorded can be restored.      *)
(* After an interrupted request it promises nothing.                       *)
(***************************************************************************)
CONSTANTS Skills, Texts, Original, Empty

VARIABLES
  content,      \* the text of each skill file
  recorded,     \* the changes on record, with the text they replaced
  interrupted   \* a request was cut short

vars == <<content, recorded, interrupted>>

Init ==
  /\ content     = [c \in Skills |-> Original]
  /\ recorded    = {}
  /\ interrupted = FALSE

\* An approved suggestion takes effect and is recorded in one step.  An empty
\* suggestion is recorded and changes nothing.
Apply(c, text) ==
  /\ recorded' = recorded \cup {[category |-> c, old |-> content[c], new |-> text]}
  /\ content'  = IF text = Empty THEN content ELSE [content EXCEPT ![c] = text]
  /\ UNCHANGED interrupted

\* A recorded change is undone.
Restore(change) ==
  /\ content' = [content EXCEPT ![change.category] = change.old]
  /\ UNCHANGED <<recorded, interrupted>>

Next ==
  \/ \E c \in Skills, text \in Texts \cup {Empty} : Apply(c, text)
  \/ \E change \in recorded : Restore(change)
  \/ interrupted'

Spec == Init /\ [][Next]_vars
=============================================================================

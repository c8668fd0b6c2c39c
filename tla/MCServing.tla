----------------------------- MODULE MCServing ------------------------------
(***************************************************************************)
(* What serves a client: the orchestrator and recall. They share no state. *)
(* A behaviour is one of a single component, the active one. The           *)
(* configuration gives the parameters; ServingProofs keeps them arbitrary. *)
(*                                                                         *)
(* For TLC recall is restricted in two ways: two operations over one       *)
(* object, and one operation over two objects that may contradict one      *)
(* another.                                                                *)
(***************************************************************************)
EXTENDS RuntimeOrchestrator, TLC

CONSTANTS
  Objects, Ops, Shapes, Drafts, Routes, Sensitivities, MaxGen, Limit, TokenCap,
  OpBudget, SpaceBudget   \* RecallPipeline

VARIABLES
  active,   \* the component of the behaviour
  history, index, op, cache, spent

Recall == INSTANCE RecallPipeline

\* An object that supports s, one that was deleted, one that is secret and
\* hedged, and one that contradicts s.
Plain   == [status |-> "active", sens |-> 0, text |-> "s", kind |-> "supports",
            instruction |-> FALSE, firm |-> 1, key |-> "none"]
Deleted == [Plain EXCEPT !.status = "deleted"]
Secret  == [Plain EXCEPT !.sens = 2, !.firm = 0]
Against == [Plain EXCEPT !.kind = "contradicts"]
MCShapes == {Plain, Deleted, Secret, Against}

\* A provider drafts what the evidence says, citing any of it, or something else.
MCDrafts ==
  {[text |-> "s", cites |-> c, located |-> TRUE, firm |-> 1] : c \in SUBSET Objects \ {{}}}
    \cup {[text |-> "t", cites |-> Objects, located |-> TRUE, firm |-> 0]}

Symmetry == Permutations(Workers)

recallVars == <<history, index, op, cache, spent>>

\* The variables of a component that is not active are off; those of
\* RuntimeOrchestrator keep their initial values.
Off == "off"
RecallOff ==
  /\ history = Off /\ index = Off /\ op = Off /\ cache = Off /\ spent = Off

Components == {"runtime", "recall", "recall_two"}

\* The two ways in which recall is checked.
ShapesIn(shapes, objects) ==
  \A g \in DOMAIN history : \A x \in objects : history[g][x].shape \in shapes
OneObject ==
  /\ Recall!Next
  /\ ShapesIn({Plain, Deleted, Secret}, {"x"})'
  /\ \A g \in DOMAIN history' : history'[g]["y"] = history[1]["y"]
  /\ index'["y"] = 1
  /\ \A o \in Ops :
       /\ op'[o].pc = "drafted" => op'[o].draft.cites = {"x"} \/ op'[o].draft.text = "t"
       /\ spent'[o] # spent[o] => op'[o].pc # "failed"
OneOperation ==
  /\ \/ Recall!StoreStep
     \/ \E o \in Ops : (\A p \in Ops \ {o} : op[p].pc = "idle") /\ Recall!OpStep(o)
  /\ ShapesIn({Plain, Against}, Objects)'

MCInit ==
  /\ active \in Components
  /\ Init
  /\ IF active \in {"recall", "recall_two"} THEN Recall!Init ELSE RecallOff
  /\ active = "recall" => ShapesIn({Deleted}, {"y"}) /\ ShapesIn({Plain}, {"x"})
  /\ active = "recall_two" => ShapesIn({Plain, Against}, Objects)

\* Only the active component takes steps.
MCNext ==
  \/ /\ active = "runtime" /\ Next
     /\ UNCHANGED <<active, recallVars>>
  \/ /\ active = "recall" /\ OneObject
     /\ UNCHANGED <<active, vars>>
  \/ /\ active = "recall_two" /\ OneOperation
     /\ UNCHANGED <<active, vars>>

all == <<active, vars, recallVars>>

MCSpec == MCInit /\ [][MCNext]_all

ASSUME Recall!RecallAssumption

-----------------------------------------------------------------------------

\* Every statement that is answered cites objects that supported it at the
\* pinned generation and were allowed then, and calls share one purse and one
\* cache, although the store moves while the provider works (RecallEngine).
AnswersAreGrounded ==
  active \in {"recall", "recall_two"} =>
    Recall!AnswerIsGrounded /\ Recall!CallsAreAccounted
=============================================================================

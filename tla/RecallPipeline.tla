--------------------------- MODULE RecallPipeline ---------------------------
(***************************************************************************)
(* The Phase-4 recall services of memory_runtime: the retrieval broker     *)
(* over a projection that lags the store, the evidence pack, the context   *)
(* planner with its egress policy, the model gateway with its cost tracker *)
(* and cache, and the verification pipeline behind the recall engine.      *)
(*                                                                         *)
(* The store, the projection, the model provider and the probabilistic     *)
(* verifier are ports: they may change, lag, fail or answer anything.  An  *)
(* operation pins the generation it retrieves at; the store moves on while *)
(* the provider works.  One workspace and source; an object's revision is  *)
(* the generation that wrote it; scores, priorities and token counts are   *)
(* the order in which objects are kept, any order.  A response is the one  *)
(* draft statement made from it: drafts are verified one by one.           *)
(***************************************************************************)
EXTENDS Naturals, Sequences, FiniteSets, FiniteSetsExt

CONSTANTS Objects,     \* memory objects
          Ops,         \* recall operations, one thread each
          Shapes,      \* contents a revision may have
          Drafts,      \* statements a provider may draft
          Routes,      \* model routes: "live", "shadow", "off" or "missing"
          Sensitivities, \* ranks; the highest is "secret"
          MaxGen,      \* bound on generations
          Limit,       \* a query's limit
          TokenCap,    \* items the context has room for
          OpBudget,    \* max_operation_micros
          SpaceBudget  \* max_source_micros and max_workspace_micros

VARIABLES history,     \* generation -> object -> its authoritative state
          index,       \* object -> the generation the projection has of it
          op,          \* operation -> its progress
          cache,       \* the model cache
          spent        \* the cost tracker: operation -> reserved

vars == <<history, index, op, cache, spent>>

Secret == Max(Sensitivities)

(* What an operation has so far: the generation it pinned and what it may  *)
(* see, its pack, its plan, its model call and its statement.              *)
NoDecision == [route |-> "none", max |-> 0]
NoKey == [route |-> "none", gen |-> 0, request |-> {}]
NoDraft == [text |-> "none", cites |-> {}, located |-> FALSE, firm |-> 0]
Idle == [pc |-> "idle", gen |-> 1, max |-> 0, atoms |-> {}, decision |-> NoDecision,
         selected |-> {}, key |-> NoKey, golden |-> FALSE, draft |-> NoDraft,
         cites |-> {}, firm |-> 0, conflict |-> FALSE]
Failed == [Idle EXCEPT !.pc = "failed"]
Abstained == [Idle EXCEPT !.pc = "abstained"]
Current == Len(history)

Init ==
    /\ \E shape \in [Objects -> Shapes] :
           history = <<[x \in Objects |-> [rev |-> 1, shape |-> shape[x]]]>>
    /\ index = [x \in Objects |-> 1]
    /\ op = [o \in Ops |-> Idle]
    /\ cache = <<>>
    /\ spent = [o \in Ops |-> 0]

(* The store commits a new revision of an object (external). *)
Commit(x, shape) ==
    /\ Current < MaxGen
    /\ history' = Append(history, [history[Current] EXCEPT ![x] = [rev |-> Current + 1, shape |-> shape]])
    /\ UNCHANGED <<index, op, cache, spent>>

(* The projection catches up with one object (external). *)
Reindex(x) ==
    /\ index[x] < Current
    /\ index' = [index EXCEPT ![x] = Current]
    /\ UNCHANGED <<history, op, cache, spent>>

(***************************************************************************)
(* RetrievalBroker.retrieve.  What a channel returned is checked against   *)
(* the authoritative state at the query's generation.                      *)
(***************************************************************************)
StateAt(g, x) == history[g][x]

Mut_Eligible(g, max, x) ==
    LET state == StateAt(index[x], x) IN
    /\ state.shape.status \in {"active", "accepted"}
    /\ state.shape.sens <= max

Eligible(g, max, x) ==
    LET state == StateAt(g, x) IN
    /\ state.rev = StateAt(index[x], x).rev
    /\ state.shape.status \in {"active", "accepted"}
    /\ state.shape.sens <= max

(* sorted(best)[:limit]: an exact match is cut after every optional one. *)
Kept(exact, all) ==
    { kept \in SUBSET all :
        /\ Cardinality(kept) = Min({Limit, Cardinality(all)})
        /\ kept \subseteq exact \/ exact \subseteq kept }

(* An atom: the revision retrieved, its statement and how it bears on it. *)
Atom(g, x) == [object |-> x, rev |-> StateAt(index[x], x).rev, shape |-> StateAt(g, x).shape]

(* EvidencePackBuilder.build: candidates whose statement digest is known. *)
Pack(g, kept, known) == { Atom(g, x) : x \in kept \cap known }

(* A query: the highest sensitivity it may see, whether it asks an optional channel. *)
Queries == [max : Sensitivities, optional : BOOLEAN]

(* A result is bound to the generation it was checked at. *)
Packed(query, atoms) ==
    [Idle EXCEPT !.pc = "packed", !.gen = Current, !.max = query.max, !.atoms = atoms]

(* A failed optional channel is left out, a failed required one raises. *)
Retrieve(o, query, exact, semantic, fails) ==
    /\ op[o].pc = "idle"
    /\ IF fails = "required"
         THEN op' = [op EXCEPT ![o] = Failed]
         ELSE LET found == exact \union (IF query.optional /\ fails = "none" THEN semantic ELSE {})
                  fit == { x \in found : Eligible(Current, query.max, x) }
              IN \E kept \in Kept(fit \cap exact, fit) : \E known \in {kept} \union { kept \ {x} : x \in kept } :
                   op' = [op EXCEPT ![o] = Packed(query, Pack(Current, kept, known))]
    /\ UNCHANGED <<history, index, cache, spent>>

(***************************************************************************)
(* ContextPlanner.plan under StaticEgressPolicy.  decision is what the     *)
(* policy says of the provider and purpose; an unknown pair is local only, *)
(* up to "secret".  unfit are the items of another purpose or without an   *)
(* allowed field.                                                          *)
(***************************************************************************)
Decisions == [route : {"provider"}, max : Sensitivities] \union {[route |-> "local_only", max |-> Secret]}

Allowed(decision, atom) ==
    /\ decision.route = "provider" => atom.shape.sens # Secret
    /\ atom.shape.sens <= decision.max

(* The plan says what was selected under which decision. *)
Planned(packed, decision, selected) ==
    [packed EXCEPT !.pc = "planned", !.decision = decision, !.selected = selected]

Plan(o, decision, unfit) ==
    LET room == { a \in op[o].atoms \ unfit : Allowed(decision, a) } IN
    /\ op[o].pc = "packed"
    /\ \E selected \in kSubset(Min({TokenCap, Cardinality(room)}), room) :
         op' = [op EXCEPT ![o] = Planned(@, decision, selected)]
    /\ UNCHANGED <<history, index, cache, spent>>

(***************************************************************************)
(* ModelGateway.call.  The cache is asked before anything else, a disabled *)
(* route included; the cost is reserved before the provider is asked and   *)
(* never given back.                                                       *)
(***************************************************************************)
Key(o, route) == [route |-> route, gen |-> op[o].gen, request |-> op[o].selected]

(* What some operations have reserved together. *)
Reserved(w, ps) == MapThenSumSet(LAMBDA p : w[p], ps)

Mut_Within(o) == spent[o] + 1 <= OpBudget

Within(o) ==
    /\ spent[o] + 1 <= OpBudget
    /\ Reserved(spent, Ops) + 1 <= SpaceBudget

Call(o, route, golden) ==
    LET key == Key(o, route) IN
    /\ op[o].pc = "planned"
    /\ UNCHANGED <<history, index, cache>>
    /\ \/ /\ ~golden /\ key \in DOMAIN cache
          /\ op' = [op EXCEPT ![o] = [@ EXCEPT !.pc = "drafted", !.draft = cache[key],
                                              !.key = key, !.golden = golden]]
          /\ UNCHANGED spent
       \/ /\ golden \/ key \notin DOMAIN cache
          /\ route = "off" \/ ~Within(o)
          /\ op' = [op EXCEPT ![o] = Failed]
          /\ UNCHANGED spent
       \/ /\ golden \/ key \notin DOMAIN cache
          /\ route # "off" /\ Within(o)
          /\ spent' = [spent EXCEPT ![o] = @ + 1]
          /\ op' = [op EXCEPT ![o] = IF route = "missing" THEN Failed
                                     ELSE [@ EXCEPT !.pc = "calling", !.key = key,
                                                    !.golden = golden]]

(* The provider fails: a transient error may be tried again. *)
ProviderFails(o) ==
    /\ op[o].pc = "calling"
    /\ \/ op' = [op EXCEPT ![o] = [@ EXCEPT !.pc = "planned", !.key = NoKey, !.golden = FALSE]]
       \/ op' = [op EXCEPT ![o] = Failed]
    /\ UNCHANGED <<history, index, cache, spent>>

(* ModelCache.put: a key keeps its first response and refuses another. *)
Put(key, draft) ==
    [k \in DOMAIN cache \union {key} |-> IF k \in DOMAIN cache THEN cache[k] ELSE draft]
Agrees(key, draft) == key \in DOMAIN cache => cache[key] = draft

ProviderAnswers(o, draft) ==
    /\ op[o].pc = "calling"
    /\ IF op[o].golden \/ Agrees(op[o].key, draft)
         THEN /\ op' = [op EXCEPT ![o] = [@ EXCEPT !.pc = "drafted", !.draft = draft]]
              /\ cache' = IF op[o].golden THEN cache ELSE Put(op[o].key, draft)
         ELSE op' = [op EXCEPT ![o] = Failed] /\ UNCHANGED cache
    /\ UNCHANGED <<history, index, spent>>

(***************************************************************************)
(* VerificationPipeline.verify.                                            *)
(***************************************************************************)
AtomsFor(o, draft) ==
    LET cited == { a \in op[o].atoms : a.object \in draft.cites }
    IN IF Cardinality(cited) = Cardinality(draft.cites) THEN cited ELSE {}

Deterministic(draft, atoms) ==
    /\ atoms # {}
    /\ \A a \in atoms : a.shape.text = draft.text
    /\ draft.located
    /\ \A a \in atoms : a.shape.kind # "contradicts"
    /\ \E a \in atoms : a.shape.kind = "supports"

(* DefaultVerificationPolicy: text that reads like an instruction is asked about. *)
PolicyAllows(atoms) == \A a \in atoms : ~a.shape.instruction

Accepted(draft, atoms, verdict) ==
    /\ Deterministic(draft, atoms)
    /\ verdict \in {"entailed", "unresolved"}
    /\ PolicyAllows(atoms)

ConflictAtoms(pack) ==
    { a \in pack : a.shape.key # "none" /\ \E b \in pack \ {a} : b.shape.key = a.shape.key }

Weakest(draft, atoms) == Min({draft.firm} \union { a.shape.firm : a \in atoms })

(* A statement cites its atoms and says whether another one contests them. *)
Stated(drafted, atoms) ==
    [drafted EXCEPT !.pc = "answered", !.cites = drafted.draft.cites,
                    !.firm = Weakest(drafted.draft, atoms),
                    !.conflict = atoms \cap ConflictAtoms(drafted.atoms) # {}]

(* RecallEngine.answer: an answer states what was accepted, or abstains. *)
Answer(o, verdict) ==
    LET draft == op[o].draft
        atoms == AtomsFor(o, draft)
    IN /\ op[o].pc = "drafted"
       /\ op' = [op EXCEPT ![o] =
                   IF Accepted(draft, atoms, verdict) THEN Stated(@, atoms) ELSE Abstained]
       /\ UNCHANGED <<history, index, cache, spent>>

(* The store and its projection move. *)
StoreStep ==
    \/ \E x \in Objects, shape \in Shapes : Commit(x, shape)
    \/ \E x \in Objects : Reindex(x)

(* An operation takes one step. *)
OpStep(o) ==
    \/ \E query \in Queries, exact, semantic \in SUBSET Objects, fails \in {"none", "optional", "required"} :
           Retrieve(o, query, exact, semantic, fails)
    \/ \E decision \in Decisions, unfit \in SUBSET op[o].atoms :
           Plan(o, decision, unfit)
    \/ \E route \in Routes, golden \in BOOLEAN : Call(o, route, golden)
    \/ ProviderFails(o)
    \/ \E draft \in Drafts : ProviderAnswers(o, draft)
    \/ \E verdict \in {"entailed", "unresolved", "contradicted", "unavailable"} : Answer(o, verdict)

Next == StoreStep \/ \E o \in Ops : OpStep(o)

Spec == Init /\ [][Next]_vars

-----------------------------------------------------------------------------
(***************************************************************************)
(* An answer is grounded in the store, however far the projection lagged   *)
(* and however the store moved while the provider worked: every object it  *)
(* cites was, at the generation the operation pinned, an active object of  *)
(* a sensitivity the query allowed that says the statement, none of them   *)
(* contradicts it, and the statement is no firmer than the weakest of      *)
(* them (RetrievalBroker.retrieve, VerificationPipeline.verify,            *)
(* RecallEngine.answer).                                                   *)
(***************************************************************************)
AnswerIsGrounded ==
    \A o \in Ops : op[o].pc = "answered" =>
        /\ op[o].cites # {}
        /\ \A x \in op[o].cites :
             LET then == StateAt(op[o].gen, x).shape IN
             /\ then.status \in {"active", "accepted"}
             /\ then.sens <= op[o].max
             /\ then.text = op[o].draft.text
             /\ then.kind # "contradicts"
             /\ ~then.instruction
             /\ op[o].firm <= then.firm
             /\ \E a \in op[o].atoms : a.object = x /\ a.rev = StateAt(op[o].gen, x).rev

(***************************************************************************)
(* Concurrent calls share one purse and one cache: what was reserved never *)
(* passes the operation's or the workspace's budget, two operations that   *)
(* were answered under one key were given one response, and nothing secret *)
(* or above the decision's sensitivity was selected for a provider         *)
(* (CostTracker.reserve, ModelCache.put, ContextPlanner.plan).             *)
(***************************************************************************)
CallsAreAccounted ==
    /\ Reserved(spent, Ops) <= SpaceBudget
    /\ \A o \in Ops : spent[o] <= OpBudget
    /\ \A o \in Ops : op[o].pc \in {"drafted", "answered"} /\ ~op[o].golden =>
           cache[op[o].key] = op[o].draft
    /\ \A o \in Ops : \A a \in op[o].selected :
               /\ StateAt(op[o].gen, a.object).shape.sens <= op[o].decision.max
               /\ op[o].decision.route = "provider" => StateAt(op[o].gen, a.object).shape.sens # Secret

-----------------------------------------------------------------------------
(* The parameters: certainty is a rank, and a draft cites finitely many.   *)
RecallAssumption ==
    /\ IsFiniteSet(Ops) /\ OpBudget \in Nat /\ SpaceBudget \in Nat
    /\ \A shape \in Shapes : shape.firm \in Nat
    /\ \A draft \in Drafts : draft.firm \in Nat /\ IsFiniteSet(draft.cites)

Atoms == [object : Objects, rev : Nat, shape : Shapes]

Progress ==
    [pc : {"idle", "packed", "planned", "calling", "drafted", "answered", "failed", "abstained"},
     gen : Nat, max : Sensitivities \union {0}, atoms : SUBSET Atoms,
     decision : Decisions \union {NoDecision}, selected : SUBSET Atoms,
     key : [route : Routes \union {"none"}, gen : Nat, request : SUBSET Atoms],
     golden : BOOLEAN, draft : Drafts \union {NoDraft},
     cites : { draft.cites : draft \in Drafts \union {NoDraft} }, firm : Nat,
     conflict : BOOLEAN]

StoreTyped ==
    /\ history \in Seq([Objects -> [rev : Nat, shape : Shapes]]) /\ Len(history) >= 1
    /\ index \in [Objects -> Nat] /\ \A x \in Objects : index[x] \in 1 .. Len(history)

OpsTyped ==
    /\ op \in [Ops -> Progress]
    /\ \A key \in DOMAIN cache : cache[key] \in Drafts

(* A pack says what the store said at the pinned generation. *)
Pinned(r) ==
    /\ r.gen \in 1 .. Len(history)
    /\ \A a \in r.atoms :
         /\ a.rev = StateAt(r.gen, a.object).rev /\ a.shape = StateAt(r.gen, a.object).shape
         /\ a.shape.status \in {"active", "accepted"} /\ a.shape.sens <= r.max

Selected(r) == \A a \in r.selected : a \in r.atoms /\ Allowed(r.decision, a)

Served(r) ==
    r.pc \in {"drafted", "answered"} /\ ~r.golden => r.key \in DOMAIN cache /\ cache[r.key] = r.draft

Grounded(r) ==
    r.pc = "answered" =>
        /\ r.cites # {}
        /\ \A x \in r.cites : \E a \in r.atoms :
             /\ a.object = x /\ a.shape.text = r.draft.text /\ a.shape.kind # "contradicts"
             /\ ~a.shape.instruction /\ r.firm <= a.shape.firm

Sound(r) == Pinned(r) /\ Selected(r) /\ Served(r) /\ Grounded(r)

Budgeted ==
    /\ spent \in [Ops -> Nat] /\ \A o \in Ops : spent[o] <= OpBudget
    /\ Reserved(spent, Ops) <= SpaceBudget

(* Inductive. *)
RecallInvariant ==
    StoreTyped /\ OpsTyped /\ (\A o \in Ops : Sound(op[o])) /\ Budgeted
=============================================================================

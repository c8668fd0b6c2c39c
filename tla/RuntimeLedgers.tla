--------------------------- MODULE RuntimeLedgers ---------------------------
(***************************************************************************)
(* The ledgers of memory_runtime that ration what reaches a person or the  *)
(* core: clarification questions (clarification.py), proactive suggestions *)
(* (proactive.py over attention.py) and write proposals with their         *)
(* receipts (write_proposal.py).  The three ledgers are process memory;    *)
(* the core behind a write proposal survives the process.                  *)
(***************************************************************************)
EXTENDS Naturals, FiniteSets

CONSTANTS Ops,        \* operations that ask questions
          Questions,  \* dedupe keys of questions: a topic and a text
          Topics,     \* topics of suggestions
          Keys,       \* dedupe keys of suggestions
          Proposals,  \* proposal ids, the digests of their contents
          Threads,    \* callers of WriteProposalGateway.submit
          MaxTime,    \* bound on the clock
          DayLength,  \* ticks of a day
          Quiet,      \* the quiet ticks
          OpBudget,   \* questions of one operation
          DailyCap, TopicCap,
          MaxAsked    \* bound on questions asked

VARIABLES clock, questions, asked, records, receipts, core, submits

attention == <<questions, asked, records>>
writes == <<receipts, core, submits>>
vars == <<clock, attention, writes>>

With(f, x, v) == [y \in DOMAIN f \union {x} |-> IF y = x THEN v ELSE f[y]]
Idle == [at |-> "idle"]
Day(t) == t \div DayLength

Init ==
    /\ clock = 0
    /\ questions = <<>>     \* dedupe key -> the question recorded last
    /\ asked = {}           \* every question ever shown
    /\ records = {}         \* the attention ledger
    /\ receipts = <<>>      \* proposal -> final result
    /\ core = <<>>          \* command id -> result, kept by the core
    /\ submits = [t \in Threads |-> Idle]

Tick == clock < MaxTime /\ clock' = clock + 1 /\ UNCHANGED <<attention, writes>>

(***************************************************************************)
(* ClarificationEngine.select over InMemoryClarificationLedger.            *)
(***************************************************************************)
CountForOperation(o) == Cardinality({ q \in DOMAIN questions : questions[q].op = o })

Mut_Seen(o, q) == q \in DOMAIN questions /\ questions[q].op = o /\ questions[q].expires > clock

Seen(o, q) == q \in DOMAIN questions /\ questions[q].expires > clock

Question(o, expires) == [op |-> o, expires |-> expires]

(* Of the candidates with enough gain the first unseen one is recorded and shown. *)
Select(o, q, expires) ==
    /\ CountForOperation(o) < OpBudget
    /\ expires > clock
    /\ ~Seen(o, q)
    /\ Cardinality(asked) < MaxAsked
    /\ questions' = With(questions, q, Question(o, expires))
    /\ asked' = asked \union {[key |-> q, op |-> o, from |-> clock, until |-> expires]}
    /\ UNCHANGED <<clock, records, writes>>

(***************************************************************************)
(* ProactiveEngine.evaluate and InMemoryAttentionLedger.admit.             *)
(***************************************************************************)
Active == { r \in records : r.expires > clock }

Admit(r) ==
    /\ \A a \in Active : a.key # r.key
    /\ Cardinality({ a \in Active : Day(a.created) = Day(clock) }) < DailyCap
    /\ Cardinality({ a \in Active : a.topic = r.topic }) < TopicCap

InQuietHours == clock \in Quiet

Evaluate(r) ==
    /\ r.expires > clock
    /\ ~InQuietHours
    /\ Admit(r)
    /\ records' = records \union {r}
    /\ UNCHANGED <<clock, questions, asked, writes>>

(***************************************************************************)
(* WriteProposalGateway.submit: the receipt, the core, the receipt again.  *)
(* The core answers a command id it knows with the result it gave before   *)
(* (external); retry_later is an answer that is not kept.                  *)
(***************************************************************************)
Mut_CommandId(t, p) == <<t, p>>

CommandId(t, p) == <<p>>

Submit(t, p) ==
    /\ submits[t].at = "idle"
    /\ submits' = [submits EXCEPT ![t] =
                     IF p \in DOMAIN receipts THEN [at |-> "done", proposal |-> p, result |-> receipts[p]]
                     ELSE [at |-> "core", proposal |-> p]]
    /\ UNCHANGED <<clock, attention, receipts, core>>

Execute(t, result) ==
    LET id == CommandId(t, submits[t].proposal)
        known == id \in DOMAIN core
        given == IF known THEN core[id].result ELSE result
    IN /\ submits[t].at = "core"
       /\ core' = IF known \/ result = "retry_later" THEN core
                  ELSE With(core, id, [proposal |-> submits[t].proposal, result |-> result])
       /\ submits' = [submits EXCEPT ![t] = [at |-> "put", proposal |-> @.proposal, result |-> given]]
       /\ UNCHANGED <<clock, attention, receipts>>

PutReceipt(t) ==
    LET p == submits[t].proposal IN
    /\ submits[t].at = "put"
    /\ receipts' = IF submits[t].result = "retry_later" \/ p \in DOMAIN receipts THEN receipts
                   ELSE With(receipts, p, submits[t].result)
    /\ submits' = [submits EXCEPT ![t] = [@ EXCEPT !.at = "done"]]
    /\ UNCHANGED <<clock, attention, core>>

Return(t) ==
    /\ submits[t].at = "done"
    /\ submits' = [submits EXCEPT ![t] = Idle]
    /\ UNCHANGED <<clock, attention, receipts, core>>

(* The process stops: its ledgers and its callers are gone (external). *)
Restart ==
    /\ questions' = <<>> /\ asked' = {} /\ records' = {}
    /\ receipts' = <<>>
    /\ submits' = [t \in Threads |-> Idle]
    /\ UNCHANGED <<clock, core>>

Next ==
    \/ Tick
    \/ \E o \in Ops, q \in Questions, e \in 1..MaxTime + 1 : Select(o, q, e)
    \/ \E topic \in Topics, key \in Keys, c \in 0..clock, e \in 1..MaxTime + 1 :
          c < e /\ Evaluate([topic |-> topic, key |-> key, created |-> c, expires |-> e])
    \/ \E t \in Threads :
          \/ \E p \in Proposals : Submit(t, p)
          \/ \E result \in {"accepted", "rejected", "retry_later"} : Execute(t, result)
          \/ PutReceipt(t) \/ Return(t)
    \/ Restart

Spec == Init /\ [][Next]_vars

-----------------------------------------------------------------------------
(***************************************************************************)
(* What reaches a person or the core is rationed, within the life of a     *)
(* process: a question is not shown again before it expired, no topic has  *)
(* more live suggestions than its cap and no day more than the daily cap,  *)
(* no two live suggestions share a dedupe key; and across restarts and     *)
(* retries a proposal reaches the core's state under one command, so two   *)
(* callers are never given two results                                     *)
(* (ClarificationEngine.select, InMemoryAttentionLedger.admit,             *)
(* WriteProposalGateway.submit).                                           *)
(***************************************************************************)
AttentionIsRationed ==
    /\ \A a, b \in asked : a.key = b.key /\ a # b => a.until <= b.from \/ b.until <= a.from
    /\ \A topic \in Topics : Cardinality({ r \in Active : r.topic = topic }) <= TopicCap
    /\ Cardinality({ r \in Active : Day(r.created) = Day(clock) }) <= DailyCap
    /\ \A r, s \in Active : r.key = s.key => r = s
    /\ \A i, j \in DOMAIN core : core[i].proposal = core[j].proposal => i = j
    /\ \A t \in Threads : submits[t].at = "done" /\ submits[t].result # "retry_later" =>
           \E i \in DOMAIN core : core[i] = [proposal |-> submits[t].proposal, result |-> submits[t].result]

-----------------------------------------------------------------------------
(* A day has a length, and the caps are numbers. *)
LedgerAssumption ==
    DayLength \in Nat \ {0} /\ DailyCap \in Nat /\ TopicCap \in Nat /\ MaxTime \in Nat

(* These results of the core hold the proposal under its own id. *)
Kept(c, p, result) ==
    <<p>> \in DOMAIN c /\ c[<<p>>] = [proposal |-> p, result |-> result]

Results == {"accepted", "rejected", "retry_later"}

(* What a caller of submit holds between its steps. *)
Holding == {Idle} \union [at : {"core"}, proposal : Proposals]
             \union [at : {"put", "done"}, proposal : Proposals, result : Results]

(* Every question shown is covered by the one recorded last under its key. *)
QuestionsCovered ==
    /\ \A q \in DOMAIN questions : questions[q].expires \in Nat
    /\ \A a \in asked :
          /\ a.from \in Nat /\ a.until \in Nat
          /\ a.key \in DOMAIN questions /\ a.until <= questions[a.key].expires
    /\ \A a, b \in asked : a.key = b.key /\ a # b => a.until <= b.from \/ b.until <= a.from

(* No record is of a later time, and the live ones are within the caps. *)
RecordsRationed ==
    /\ clock \in Nat
    /\ IsFiniteSet(records)
    /\ \A r \in records : r.created \in 0..clock /\ r.expires \in Nat
    /\ \A topic \in Topics : Cardinality({ r \in Active : r.topic = topic }) <= TopicCap
    /\ Cardinality({ r \in Active : Day(r.created) = Day(clock) }) <= DailyCap
    /\ \A r, s \in Active : r.key = s.key => r = s

(* Every final result that a receipt or a caller holds is the core's. *)
ResultsKept ==
    /\ \A i \in DOMAIN core :
          /\ core[i] \in [proposal : Proposals, result : Results \ {"retry_later"}]
          /\ i = <<core[i].proposal>>
    /\ \A p \in DOMAIN receipts : receipts[p] \in Results /\ Kept(core, p, receipts[p])
    /\ submits \in [Threads -> Holding]
    /\ \A t \in Threads :
          submits[t].at \in {"put", "done"} /\ submits[t].result # "retry_later" =>
              Kept(core, submits[t].proposal, submits[t].result)

LedgerInvariant == QuestionsCovered /\ RecordsRationed /\ ResultsKept
=============================================================================

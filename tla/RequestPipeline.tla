-------------------------- MODULE RequestPipeline --------------------------
(* What happens to a call before and after its handler: the stand is          *)
(* resolved, the caller's address checked, the traffic log opened, the fault   *)
(* rules evaluated, a repeated call answered from the store, the handler run,  *)
(* its answer remembered and the call logged.  Every read and write of a table *)
(* is a statement of its own, so requests and the console's edits interleave   *)
(* between them.                                                               *)
EXTENDS FaultRule, Access

CONSTANTS
    Service,      \* "paymemock" or "merchant"
    Requests,     \* calls, each made once
    Arrivals,     \* what they may carry
    Forms,        \* rules the console is asked for
    Typed,        \* networks it is asked to admit
    Seeded,       \* rules the table holds at the start
    Lists,        \* allowlists a stand may start with
    Listed,       \* idempotentMethods, none at the merchant
    TrustForwarded, NoId, NoCall, NoEntry,
    Window,       \* how long an answer is replayed, 0 for never
    MaxClock, MaxRules,
    MaxDisturbances, \* console edits and failures together
    MaxInFlight   \* calls in flight together

RuleIds == 1..MaxRules

ArrivalOK(q) ==
    /\ q.stand \in Stands /\ q.method \in Methods /\ q.body \in Bodies
    /\ q.cred \in Credentials /\ q.known \in BOOLEAN /\ q.shared \in BOOLEAN
    /\ q.remote \in Address \union {Unreadable}
    /\ q.forwarded \in Seq(Seq(Address \union {Unreadable}))  \* header lines of entries

\* What a caller receives, a remembered call, and an entry of the log.
Answers  == [kind : {"none", "refusal", "status", "fault", "broken", "dropped", "result", "lost"},
             by : SUBSET Requests, layout : {"sent", "jsonb"}]
CallRow  == [body : Bodies, answer : Answers, at : Nat]
EntryRow == [kind : {"empty", "none", "refusal", "status", "fault", "broken", "result", "lost"},
             rule : RuleIds \union {0}]

ASSUME PipelineAssumption ==
    /\ \A q \in Arrivals : ArrivalOK(q)
    /\ Forms \subseteq RuleForms /\ Typed \subseteq Prefix
    /\ Lists \subseteq SUBSET Prefix
    /\ Seeded \in Seq(RuleRow) /\ Unlimited \notin Nat
    /\ Service \in {"paymemock", "merchant"} /\ Listed \subseteq Methods
    /\ Window \in Nat /\ MaxInFlight \in Nat \ {0}
    /\ IsFiniteSet(Requests) /\ {MaxClock, MaxRules, MaxDisturbances} \subseteq Nat
    /\ NoCall \notin Arrivals \union CallRow /\ NoEntry \notin EntryRow

VARIABLES
    rules,    \* control.fault_rules
    nextRule, \* its sequence
    allow,    \* control.ip_rules, by stand
    calls,    \* control.idempotent_calls
    log,      \* control.request_log, by the call an entry is about
    pc, loc,  \* the step a call runs next and what it holds
    now, edits, failures,
    granted   \* history: uses a rule was given

tables == <<rules, nextRule, allow, calls, log>>
vars   == <<rules, nextRule, allow, calls, log, pc, loc, now, edits, failures, granted>>

\* One intention: the stand, the method and the id the caller put on it.
CallKey(q) == <<q.stand, q.method, q.id>>
Keys       == {CallKey(q) : q \in Arrivals}

\* The call named by "by" did the work behind a result.
Answer(kind, by) == [kind |-> kind, by |-> by, layout |-> "sent"]
Silence == Answer("none", {})

Fresh == [req |-> NoCall, rule |-> 0, act |-> "none", again |-> FALSE, unread |-> TRUE,
          answer |-> Silence, works |-> 0, seen |-> 0, before |-> {},
          asked |-> 0, kept |-> 0]

InFlight == {r \in Requests : pc[r] \notin {"new", "done"}}
Finished == {r \in Requests : pc[r] = "done"}

Init ==
    /\ rules = [i \in RuleIds |-> IF i \in DOMAIN Seeded THEN Seeded[i] ELSE NoRule]
    /\ nextRule = Len(Seeded) + 1
    /\ allow \in [Stands -> Lists]
    /\ calls = [k \in Keys |-> NoCall]
    /\ log = [r \in Requests |-> NoEntry]
    /\ pc = [r \in Requests |-> "new"]
    /\ loc = [r \in Requests |-> Fresh]
    /\ now = 0 /\ edits = 0 /\ failures = 0
    /\ granted = [i \in RuleIds |-> IF i \in DOMAIN Seeded /\ Seeded[i].left # Unlimited
                                    THEN Seeded[i].left ELSE 0]

Goto(r, label) == pc' = [pc EXCEPT ![r] = label]
Set(r, label, field, value) ==
    Goto(r, label) /\ loc' = [loc EXCEPT ![r][field] = value]
Disturbed == edits + failures >= MaxDisturbances
Broken == ~Disturbed /\ failures' = failures + 1
Sound  == UNCHANGED failures
Quiet  == UNCHANGED <<now, edits, granted>>
Still  == Sound /\ UNCHANGED tables /\ Quiet

-----------------------------------------------------------------------------
(* The call's way in.  A call that names no stand, or comes from an address     *)
(* its stand does not admit, is answered here, before the traffic log.        *)
Turned(q) == IF ~Resolved(q) /\ q.shared THEN Answer("refusal", {}) ELSE Answer("status", {})

Admitted(q) ==
    LET from == ClientAddr(q.remote, Chain(q.forwarded), TrustForwarded)
    IN  allow[q.stand] = {} \/ (from \in Address /\ Allows(allow[q.stand], from))

Arrives(r, q, answer, label) ==
    /\ pc[r] = "new" /\ Cardinality(InFlight) < MaxInFlight
    /\ loc' = [loc EXCEPT ![r] = [Fresh EXCEPT !.req = q, !.before = Finished, !.answer = answer]]
    /\ Goto(r, label) /\ UNCHANGED tables /\ Quiet

Admit(r, q) == Resolved(q) /\ Admitted(q) /\ Arrives(r, q, Silence, "rules") /\ Sound
TurnAway(r, q) == ~(Resolved(q) /\ Admitted(q)) /\ Arrives(r, q, Turned(q), "done") /\ Sound

\* The stand or its list could not be read: nothing is let through.
AdmitFails(r, q) == Broken /\ Arrives(r, q, Answer("status", {}), "done")

-----------------------------------------------------------------------------
(* The fault layer.  The rules are read once; the decision is made on that     *)
(* snapshot, and a limited rule is spent by a statement of its own.            *)
Evaluate(r) ==
    /\ pc[r] = "rules"
    /\ \E i \in Decisions(rules, Service, loc[r].req) :
          /\ loc' = [loc EXCEPT ![r].rule = i,
                                ![r].act = IF i = 0 THEN "none" ELSE rules[i].action]
          /\ Goto(r, IF i # 0 /\ rules[i].left # Unlimited THEN "consume" ELSE "hit")
    /\ Still

\* A fault layer that cannot reach its rules lets the call through.
Unruled(r) == loc' = [loc EXCEPT ![r].rule = 0, ![r].act = "none"] /\ Goto(r, "serve")

EvaluateFails(r) == pc[r] = "rules" /\ Broken /\ Unruled(r) /\ UNCHANGED tables /\ Quiet

\* The row may be gone by now, which is reported as an error like any other.
Consume(r) ==
    LET i == loc[r].rule
    IN  /\ pc[r] = "consume" /\ Sound
        /\ \/ /\ rules[i] # NoRule
              /\ rules' = [rules EXCEPT ![i] = Consumed(@)]
              /\ Goto(r, "hit") /\ UNCHANGED loc
           \/ rules[i] = NoRule /\ Unruled(r) /\ UNCHANGED rules
        /\ UNCHANGED <<nextRule, allow, calls, log>> /\ Quiet

ConsumeFails(r) == pc[r] = "consume" /\ Broken /\ Unruled(r) /\ UNCHANGED tables /\ Quiet

FaultAnswer ==
    [rpc_error |-> "fault", http_status |-> "status", malformed |-> "broken", drop |-> "dropped"]

(* onDecision counts the rule, in a context that outlives the call; the call   *)
(* waits for as long as the rule says; and apply answers it, or has it served  *)
(* once, or twice.                                                             *)
Apply(r) ==
    LET i   == loc[r].rule
        act == loc[r].act
    IN  /\ pc[r] = "hit"
        /\ \/ /\ Sound
              /\ rules' = IF Faulted(act) /\ rules[i] # NoRule
                          THEN [rules EXCEPT ![i] = Counted(@)] ELSE rules
           \/ Faulted(act) /\ Broken /\ UNCHANGED rules
        /\ \/ /\ act \in DOMAIN FaultAnswer
              /\ Set(r, "record", "answer", Answer(FaultAnswer[act], {}))
           \/ act = "duplicate" /\ Set(r, "serve", "again", TRUE)
           \/ act \in {"none", "passthrough", "delay"} /\ Goto(r, "serve") /\ UNCHANGED loc
        /\ UNCHANGED <<nextRule, allow, calls, log>> /\ Quiet

-----------------------------------------------------------------------------
(* One delivery.  A body read to its end by the first delivery is empty for    *)
(* the second: keyOf leaves an empty body alone and Dispatch cannot parse it.  *)
Keyed(r) ==
    /\ Window > 0 /\ loc[r].unread
    /\ loc[r].req.method \in Listed /\ loc[r].req.id # NoId

Delivered(r, update) ==
    /\ loc' = [loc EXCEPT ![r] = [update EXCEPT !.again = FALSE,
                 !.answer = IF loc[r].again THEN Silence ELSE @]]
    /\ Goto(r, IF loc[r].again THEN "serve" ELSE "record")

\* Three mistakes: a recall by the key alone, a row that is never renewed, and
\* an entry that does not name the rule.
RecalledByKey(row, q) == row # NoCall /\ row.at + Window > now

RememberedOnce(row, q, answer) ==
    IF row = NoCall THEN [body |-> q.body, answer |-> answer, at |-> now] ELSE row

EntryUnnamed(r) ==
    [kind |-> IF loc[r].answer.kind = "dropped" THEN "empty" ELSE loc[r].answer.kind, rule |-> 0]

\* Recall: the same key, the same body, and not too long ago.
Recalled(row, q) ==
    row # NoCall /\ row.body = q.body /\ row.at + Window > now

Recall(r) ==
    LET q == loc[r].req
    IN  /\ pc[r] = "serve" /\ Sound
        /\ \/ /\ Keyed(r) /\ Recalled(calls[CallKey(q)], q)
              /\ Delivered(r, [loc[r] EXCEPT !.seen = @ + 1, !.answer = calls[CallKey(q)].answer])
           \/ /\ ~(Keyed(r) /\ Recalled(calls[CallKey(q)], q))
              /\ Set(r, "work", "asked", IF Keyed(r) THEN now ELSE loc[r].asked)
        /\ UNCHANGED tables /\ Quiet

RecallFails(r) ==
    /\ pc[r] = "serve" /\ Keyed(r) /\ Broken
    /\ Set(r, "work", "asked", now) /\ UNCHANGED tables /\ Quiet

(* The handler.  The Subscribe API reads the body and then authorizes, the     *)
(* Merchant API authorizes first; a call it accepts does its work, or is       *)
(* refused by it, or fails after it.                                          *)
Authorized(q) == IF Service = "paymemock" THEN AuthorizeSubscribe(q) ELSE CheckMerchantAuth(q)

Refuse(r) ==
    /\ pc[r] = "work" /\ Sound
    /\ Delivered(r, [loc[r] EXCEPT !.unread = Service = "merchant" /\ ~Authorized(loc[r].req) /\ @,
                                   !.seen = @ + (IF loc[r].unread THEN 1 ELSE 0),
                                   !.answer = Answer("refusal", {})])
    /\ UNCHANGED tables /\ Quiet

Work(r) ==
    LET done == [loc[r] EXCEPT !.unread = FALSE, !.works = @ + 1, !.seen = @ + 1,
                               !.answer = Answer("result", {r})]
    IN  /\ pc[r] = "work" /\ loc[r].unread /\ Authorized(loc[r].req)
        /\ \/ Sound /\ Keyed(r) /\ loc' = [loc EXCEPT ![r] = done] /\ Goto(r, "remember")
           \/ Sound /\ ~Keyed(r) /\ Delivered(r, done)
           \/ Broken /\ Delivered(r, [done EXCEPT !.answer = Answer("refusal", {})])
        /\ UNCHANGED tables /\ Quiet

(* The column is jsonb: it keeps what an answer says, not its bytes, and a     *)
(* replay is written in the column's own layout.                              *)
Jsonb(answer) == [answer EXCEPT !.layout = "jsonb"]

(* Remember: a new row, or the row of the same body renewed.  A row of another *)
(* body keeps the key.                                                        *)
Remembered(row, q, answer) ==
    IF row = NoCall \/ row.body = q.body
    THEN [body |-> q.body, answer |-> Jsonb(answer), at |-> now] ELSE row

Remember(r) ==
    LET q == loc[r].req
    IN  /\ pc[r] = "remember"
        /\ \/ /\ Sound
              /\ calls' = [calls EXCEPT ![CallKey(q)] = Remembered(@, q, loc[r].answer)]
           \/ Broken /\ UNCHANGED calls
        /\ Delivered(r, [loc[r] EXCEPT !.kept = now])
        /\ UNCHANGED <<rules, nextRule, allow, log>> /\ Quiet

-----------------------------------------------------------------------------
(* The traffic log's entry: the status and body that were written - none of    *)
(* either for a dropped connection, which reads as an empty 200 - and the rule *)
(* that was reported.  The entry refers to the rule's row, so it is refused    *)
(* once that row is gone; a refused or failed write is only logged.            *)
Entry(r) ==
    [kind |-> IF loc[r].answer.kind = "dropped" THEN "empty" ELSE loc[r].answer.kind,
     rule |-> IF Faulted(loc[r].act) THEN loc[r].rule ELSE 0]

Record(r) ==
    LET refused == Entry(r).rule # 0 /\ rules[loc[r].rule] = NoRule
    IN  /\ pc[r] = "record"
        /\ \/ Sound /\ log' = [log EXCEPT ![r] = IF refused THEN @ ELSE Entry(r)]
           \/ Broken /\ UNCHANGED log
        /\ Goto(r, "done") /\ UNCHANGED <<loc, rules, nextRule, allow, calls>> /\ Quiet

\* The process ends: nothing more happens of the calls it was serving.
Crash ==
    /\ InFlight # {} /\ Broken
    /\ pc'  = [r \in Requests |-> IF r \in InFlight THEN "done" ELSE pc[r]]
    /\ loc' = [r \in Requests |-> IF r \in InFlight
                                   THEN [loc[r] EXCEPT !.answer = Answer("lost", {}),
                                                       !.rule = IF pc[r] = "consume" THEN 0 ELSE @]
                                   ELSE loc[r]]
    /\ UNCHANGED tables /\ Quiet

-----------------------------------------------------------------------------
(* The console.  A row that goes leaves the entries that name it without a     *)
(* rule (ON DELETE SET NULL).                                                  *)
Unmarked(gone) ==
    [r \in Requests |-> IF log[r] # NoEntry /\ log[r].rule \in gone
                        THEN [log[r] EXCEPT !.rule = 0] ELSE log[r]]

Edit == ~Disturbed /\ edits' = edits + 1 /\ UNCHANGED <<pc, loc, now, failures>>

\* CreateRule replaces, in one transaction, the rule of the same method.
CreateRule(f) ==
    LET same == {i \in RuleIds : /\ rules[i] # NoRule /\ ~rules[i].profile
                                 /\ rules[i].service = f.service /\ rules[i].stand = f.stand
                                 /\ rules[i].methods = f.methods}
    IN  /\ Edit /\ nextRule \in RuleIds
        /\ rules' = [i \in RuleIds |-> IF i = nextRule THEN Inserted(f)
                                       ELSE IF i \in same THEN NoRule ELSE rules[i]]
        /\ log' = Unmarked(same) /\ nextRule' = nextRule + 1
        /\ granted' = [granted EXCEPT ![nextRule] = IF f.left = Unlimited THEN 0 ELSE f.left]
        /\ UNCHANGED <<allow, calls>>

Fired(i) == Cardinality({r \in Requests : loc[r].rule = i /\ pc[r] \notin {"consume", "new"}})

UpdateRule(i, f) ==
    /\ Edit /\ rules[i] # NoRule
    /\ rules' = [rules EXCEPT ![i] = Updated(@, f)]
    /\ granted' = [granted EXCEPT ![i] = IF f.left = Unlimited THEN 0 ELSE Fired(i) + f.left]
    /\ UNCHANGED <<nextRule, allow, calls, log>>

ToggleRule(i) ==
    /\ Edit /\ rules[i] # NoRule
    /\ rules' = [rules EXCEPT ![i].enabled = ~@]
    /\ UNCHANGED <<nextRule, allow, calls, log, granted>>

DeleteRule(i) ==
    /\ Edit /\ rules[i] # NoRule
    /\ rules' = [rules EXCEPT ![i] = NoRule] /\ log' = Unmarked({i})
    /\ UNCHANGED <<nextRule, allow, calls, granted>>

\* The unique index refuses an address the stand already admits.
CreateIPRule(s, typed) ==
    /\ Edit /\ ParsePrefix(typed) \notin allow[s]
    /\ allow' = [allow EXCEPT ![s] = @ \union {ParsePrefix(typed)}]
    /\ UNCHANGED <<rules, nextRule, calls, log, granted>>

DeleteIPRule(s, p) ==
    /\ Edit /\ p \in allow[s]
    /\ allow' = [allow EXCEPT ![s] = @ \ {p}]
    /\ UNCHANGED <<rules, nextRule, calls, log, granted>>

Tick ==
    /\ now < MaxClock /\ now' = now + 1
    /\ UNCHANGED <<tables, pc, loc, edits, failures, granted>>

Call(r) ==
    \/ \E q \in Arrivals : Admit(r, q) \/ TurnAway(r, q) \/ AdmitFails(r, q)
    \/ Evaluate(r) \/ EvaluateFails(r) \/ Consume(r) \/ ConsumeFails(r) \/ Apply(r)
    \/ Recall(r) \/ RecallFails(r) \/ Refuse(r) \/ Work(r) \/ Remember(r)
    \/ Record(r)

Console ==
    \/ \E f \in Forms : CreateRule(f)
    \/ \E i \in RuleIds : (\E f \in Forms : UpdateRule(i, f)) \/ ToggleRule(i) \/ DeleteRule(i)
    \/ \E s \in Stands : \/ \E p \in Typed : CreateIPRule(s, p)
                         \/ \E p \in allow[s] : DeleteIPRule(s, p)

Next == (\E r \in Requests : Call(r)) \/ Crash \/ Console \/ Tick

Spec == Init /\ [][Next]_vars

-----------------------------------------------------------------------------
(* Every table row, step and held value has the shape the code gives it; a     *)
(* limited rule never has fewer than no uses left.                            *)
TypeOK ==
    /\ \A i \in RuleIds : rules[i] = NoRule \/ rules[i] \in RuleRow
    /\ \A s \in Stands : allow[s] \subseteq Prefix
    /\ \A k \in Keys : calls[k] # NoCall => calls[k] \in CallRow /\ calls[k].at <= now
    /\ \A r \in Requests : log[r] # NoEntry => log[r] \in EntryRow
    /\ \A r \in Requests :
          /\ pc[r] \in {"new", "rules", "consume", "hit", "serve", "work", "remember",
                        "record", "done"}
          /\ loc[r].rule \in RuleIds \union {0} /\ loc[r].answer \in Answers
          /\ loc[r].works \in 0..1 /\ loc[r].asked \in 0..now /\ loc[r].kept \in 0..now

(* A caller who receives a result receives what the same call was answered:    *)
(* whoever did the work behind it asked the same stand for the same method     *)
(* under the same id with the same parameters (CallStore.Recall and Remember). *)
(* It is the same content; "byte for byte" (idempotency.go:81) it is not, the  *)
(* replay having been through a jsonb column (Jsonb).                          *)
ReplayIsTheFirstAnswer ==
    \A r \in Requests : \A w \in loc[r].answer.by :
        /\ loc[w].works = 1
        /\ w # r => /\ loc[w].req.method \in Listed
                    /\ CallKey(loc[w].req) = CallKey(loc[r].req)
                    /\ loc[w].req.body = loc[r].req.body

(* A listed call repeated within the window, after the first was answered and  *)
(* with nothing lost on the way, does not do its work again (the Idempotency   *)
(* middleware; the doc comment of idempotentMethods).  A call of other         *)
(* parameters under the same id takes the key away.                           *)
OncePerIntention ==
    \A a, b \in Requests :
        LET q == loc[b].req
        IN  (/\ failures = 0 /\ b # a /\ a \in loc[b].before
             /\ loc[a].works = 1 /\ loc[b].works = 1
             /\ loc[a].req # NoCall /\ CallKey(loc[a].req) = CallKey(q) /\ loc[a].req.body = q.body
             /\ q.method \in Listed /\ q.id # NoId
             /\ \A c \in Requests :
                   loc[c].req # NoCall /\ CallKey(loc[c].req) = CallKey(q) => loc[c].req.body = q.body)
            => loc[b].asked >= loc[a].kept + Window

(* A rule with a number of uses fires that often, and at most once more for    *)
(* every other call in flight when it was spent: not again when it is switched  *)
(* back on (RuleStore.Consume, Rule.Exhausted, Engine.Evaluate).              *)
UsesBounded ==
    \A i \in RuleIds : rules[i] # NoRule /\ rules[i].left # Unlimited =>
        Fired(i) <= granted[i] + MaxInFlight - 1

(* The log has an entry of every answer the stand gave behind its allowlist,    *)
(* and it tells a deliberate failure from a real one as long as the rule's row  *)
(* is there (TrafficMiddleware.record, ReportFiredRule).                       *)
Reached(r) == loc[r].answer.kind # "lost" /\ (loc[r].seen > 0 \/ loc[r].rule # 0)
LogTellsTheTruth ==
    \A r \in Requests : pc[r] = "done" /\ Reached(r) /\ failures = 0 =>
        LET shaped == Faulted(loc[r].act)
        IN  /\ log[r] = NoEntry => shaped /\ rules[loc[r].rule] = NoRule
            /\ log[r] # NoEntry =>
                 /\ log[r].rule # 0 => shaped /\ log[r].rule = loc[r].rule
                 /\ shaped /\ log[r].rule = 0 => rules[loc[r].rule] = NoRule

(* Whoever got past a list that is not empty came, bit for bit, from a network  *)
(* on it: the deciding address is the last readable entry of the first         *)
(* forwarded line, and no entry before it, nor any other line, matters; it is   *)
(* the peer where no entry can be read or none is trusted (Allowlist.Wrap,      *)
(* ParsePrefix, Allows, ClientAddr).  The last entry is the proxy's own only if *)
(* it can be read: past an unreadable one the decision is that of an entry      *)
(* "written by whoever is calling" (allowlist.go:86), and a line that a proxy   *)
(* adds below the caller's is not read at all.                                 *)
HighBits(a, n) == [k \in 1..n |-> (a \div Pow2[Width - k]) % 2]
Decides(a, q) ==
    LET chain == IF TrustForwarded THEN Chain(q.forwarded) ELSE <<>>
    IN  \/ /\ a = q.remote
           /\ \A i \in DOMAIN chain : chain[i] = Unreadable
        \/ \E i \in DOMAIN chain :
             a = chain[i] /\ \A j \in DOMAIN chain : j > i => chain[j] = Unreadable
AdmittedWasListed ==
    [][\A r \in Requests : pc[r] = "new" /\ pc'[r] = "rules" =>
          LET q == loc'[r].req
          IN  allow[q.stand] # {} =>
                \E a \in Address, p \in allow[q.stand] :
                   Decides(a, q) /\ HighBits(a, p.len) = HighBits(p.net, p.len)]_vars

=============================================================================

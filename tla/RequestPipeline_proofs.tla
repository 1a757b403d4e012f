----------------------- MODULE RequestPipeline_proofs -----------------------
(* What is proved of RequestPipeline.                                          *)
EXTENDS RequestPipeline, FiniteSetTheorems, NaturalsInduction, WellFoundedInduction, TLAPS

Steps == {"new", "rules", "consume", "hit", "serve", "work", "remember", "record", "done"}

\* What a call holds.
Held == [req : Arrivals \union {NoCall}, rule : RuleIds \union {0}, act : Actions \union {"none"},
         again : BOOLEAN, unread : BOOLEAN, answer : Answers, works : Nat, seen : Nat,
         before : SUBSET Requests, asked : Nat, kept : Nat]

Shaped ==
    /\ rules \in [RuleIds -> RuleRow \union {NoRule}] /\ nextRule \in Nat \ {0}
    /\ allow \in [Stands -> SUBSET Prefix]
    /\ calls \in [Keys -> CallRow \union {NoCall}]
    /\ log \in [Requests -> EntryRow \union {NoEntry}]
    /\ pc \in [Requests -> Steps] /\ loc \in [Requests -> Held]
    /\ now \in Nat /\ edits \in Nat /\ failures \in Nat /\ granted \in [RuleIds -> Nat]

\* What a step leaves of a record that a call holds.
SameCall(g, h) == g.req = h.req /\ g.before = h.before
SameRule(g, h) == g.rule = h.rule /\ g.act = h.act
SameWork(g, h) == g.works = h.works /\ g.kept = h.kept
SameBody(g, h) == g.unread = h.unread /\ g.again = h.again

-----------------------------------------------------------------------------
(* Fields of what a call holds, one at a time.                                 *)
LEMMA ReqSet ==
    ASSUME NEW h \in Held, NEW v \in Arrivals
    PROVE  LET g == [h EXCEPT !.req = v]
           IN  /\ g \in Held /\ g.req = v /\ SameRule(g, h) /\ SameWork(g, h)
               /\ g.unread = h.unread /\ g.seen = h.seen /\ g.asked = h.asked
  BY DEF Held, SameRule, SameWork

\* Writing the calls finished before.
LEMMA BeforeSet ==
    ASSUME NEW h \in Held, NEW v \in SUBSET Requests
    PROVE  LET g == [h EXCEPT !.before = v]
           IN  /\ g \in Held /\ g.before = v /\ g.req = h.req /\ SameRule(g, h) /\ SameWork(g, h)
               /\ g.unread = h.unread /\ g.seen = h.seen /\ g.asked = h.asked
  BY DEF Held, SameRule, SameWork

\* Writing the rule that fired.
LEMMA RuleSet ==
    ASSUME NEW h \in Held, NEW v \in RuleIds \union {0}
    PROVE  LET g == [h EXCEPT !.rule = v]
           IN  /\ g \in Held /\ g.rule = v /\ g.act = h.act /\ SameCall(g, h) /\ SameWork(g, h)
               /\ SameBody(g, h) /\ g.answer = h.answer /\ g.seen = h.seen /\ g.asked = h.asked
  BY DEF Held, SameCall, SameWork, SameBody

\* Writing the action of the rule.
LEMMA ActSet ==
    ASSUME NEW h \in Held, NEW v \in Actions \union {"none"}
    PROVE  LET g == [h EXCEPT !.act = v]
           IN  /\ g \in Held /\ g.act = v /\ g.rule = h.rule /\ SameCall(g, h) /\ SameWork(g, h)
               /\ SameBody(g, h) /\ g.answer = h.answer /\ g.seen = h.seen /\ g.asked = h.asked
  BY DEF Held, SameCall, SameWork, SameBody

\* Writing whether the handler is to run once more.
LEMMA AgainSet ==
    ASSUME NEW h \in Held, NEW v \in BOOLEAN
    PROVE  LET g == [h EXCEPT !.again = v]
           IN  /\ g \in Held /\ g.again = v /\ SameCall(g, h) /\ SameRule(g, h) /\ SameWork(g, h)
               /\ g.unread = h.unread /\ g.answer = h.answer /\ g.seen = h.seen /\ g.asked = h.asked
  BY DEF Held, SameCall, SameRule, SameWork

\* Writing whether the body is unread.
LEMMA UnreadSet ==
    ASSUME NEW h \in Held, NEW v \in BOOLEAN
    PROVE  LET g == [h EXCEPT !.unread = v]
           IN  /\ g \in Held /\ g.unread = v /\ SameCall(g, h) /\ SameRule(g, h) /\ SameWork(g, h)
               /\ g.again = h.again /\ g.answer = h.answer /\ g.seen = h.seen /\ g.asked = h.asked
  BY DEF Held, SameCall, SameRule, SameWork

\* Writing the answer.
LEMMA AnswerSet ==
    ASSUME NEW h \in Held, NEW v \in Answers
    PROVE  LET g == [h EXCEPT !.answer = v]
           IN  /\ g \in Held /\ g.answer = v /\ SameCall(g, h) /\ SameRule(g, h) /\ SameWork(g, h)
               /\ SameBody(g, h) /\ g.seen = h.seen /\ g.asked = h.asked
  BY DEF Held, SameCall, SameRule, SameWork, SameBody

\* Writing how often the handler worked.
LEMMA WorksSet ==
    ASSUME NEW h \in Held, NEW v \in Nat
    PROVE  LET g == [h EXCEPT !.works = v]
           IN  /\ g \in Held /\ g.works = v /\ g.kept = h.kept /\ SameCall(g, h) /\ SameRule(g, h)
               /\ SameBody(g, h) /\ g.answer = h.answer /\ g.seen = h.seen /\ g.asked = h.asked
  BY DEF Held, SameCall, SameRule, SameBody

\* Writing how often the handler was reached.
LEMMA SeenSet ==
    ASSUME NEW h \in Held, NEW v \in Nat
    PROVE  LET g == [h EXCEPT !.seen = v]
           IN  /\ g \in Held /\ g.seen = v /\ SameCall(g, h) /\ SameRule(g, h) /\ SameWork(g, h)
               /\ SameBody(g, h) /\ g.answer = h.answer /\ g.asked = h.asked
  BY DEF Held, SameCall, SameRule, SameWork, SameBody

\* Writing when the call asked for a stored answer.
LEMMA AskedSet ==
    ASSUME NEW h \in Held, NEW v \in Nat
    PROVE  LET g == [h EXCEPT !.asked = v]
           IN  /\ g \in Held /\ g.asked = v /\ SameCall(g, h) /\ SameRule(g, h) /\ SameWork(g, h)
               /\ SameBody(g, h) /\ g.answer = h.answer /\ g.seen = h.seen
  BY DEF Held, SameCall, SameRule, SameWork, SameBody

\* Writing when the answer was kept.
LEMMA KeptSet ==
    ASSUME NEW h \in Held, NEW v \in Nat
    PROVE  LET g == [h EXCEPT !.kept = v]
           IN  /\ g \in Held /\ g.kept = v /\ g.works = h.works /\ SameCall(g, h) /\ SameRule(g, h)
               /\ SameBody(g, h) /\ g.answer = h.answer /\ g.seen = h.seen /\ g.asked = h.asked
  BY DEF Held, SameCall, SameRule, SameBody

\* The answers the middlewares write themselves are answers.
LEMMA AnswersAre ==
    /\ Silence \in Answers
    /\ \A r \in Requests : Answer("result", {r}) \in Answers
    /\ \A kind \in {"refusal", "status", "lost"} : Answer(kind, {}) \in Answers
    /\ \A act \in DOMAIN FaultAnswer : Answer(FaultAnswer[act], {}) \in Answers
  BY DEF Silence, Answer, Answers, FaultAnswer

\* The column keeps who did the work and what kind of answer it was.
LEMMA JsonbIs ==
    ASSUME NEW a \in Answers
    PROVE  Jsonb(a) \in Answers /\ Jsonb(a).by = a.by /\ Jsonb(a).kind = a.kind
  BY DEF Jsonb, Answers
-----------------------------------------------------------------------------
(* The steps of a call by what they do to the fields, the tables and the way on.   *)

\* Only call r moves.
Only(r) ==
    /\ pc' \in [Requests -> Steps] /\ loc' \in [Requests -> Held]
    /\ \A s \in Requests \ {r} : pc'[s] = pc[s] /\ loc'[s] = loc[s]
    /\ failures' \in Nat /\ failures <= failures' /\ UNCHANGED <<now, edits, granted, nextRule, allow>>

Arriving(r) ==
    /\ pc[r] = "new" /\ pc'[r] \in {"rules", "done"} /\ Cardinality(InFlight) < MaxInFlight
    /\ \E q \in Arrivals, a \in Answers :
          a.by = {} /\ loc'[r].req = q /\ loc'[r].answer = a
    /\ loc'[r].before = Finished /\ loc'[r].unread /\ loc'[r].seen = 0
    /\ SameRule(loc'[r], Fresh) /\ SameWork(loc'[r], Fresh) /\ loc'[r].asked = Fresh.asked
    /\ UNCHANGED tables

Deciding(r) ==
    /\ pc[r] = "rules"
    /\ \E i \in RuleIds \union {0} :
          /\ loc'[r].rule = i
          /\ i = 0 => loc'[r].act = "none" /\ pc'[r] = "hit"
          /\ i # 0 => /\ rules[i] # NoRule /\ (rules[i].left = Unlimited \/ rules[i].left > 0)
                      /\ pc'[r] = IF rules[i].left = Unlimited THEN "hit" ELSE "consume"
    /\ SameCall(loc'[r], loc[r]) /\ SameWork(loc'[r], loc[r]) /\ SameBody(loc'[r], loc[r])
    /\ loc'[r].answer = loc[r].answer /\ loc'[r].asked = loc[r].asked
    /\ UNCHANGED tables

Dismissing(r) ==
    /\ pc[r] \in {"rules", "consume"} /\ pc'[r] = "serve" /\ loc'[r].rule = 0 /\ loc'[r].act = "none"
    /\ SameCall(loc'[r], loc[r]) /\ SameWork(loc'[r], loc[r]) /\ SameBody(loc'[r], loc[r])
    /\ loc'[r].answer = loc[r].answer /\ loc'[r].asked = loc[r].asked
    /\ UNCHANGED tables

Consuming(r) ==
    /\ pc[r] = "consume" /\ pc'[r] = "hit" /\ loc'[r] = loc[r] /\ rules[loc[r].rule] # NoRule
    /\ rules' = [rules EXCEPT ![loc[r].rule] = Consumed(@)]
    /\ UNCHANGED <<calls, log>>

Counting(r) ==
    \/ rules' = rules
    \/ /\ Faulted(loc[r].act) /\ rules[loc[r].rule] # NoRule
       /\ rules' = [rules EXCEPT ![loc[r].rule] = Counted(@)]

Applying(r) ==
    /\ pc[r] = "hit"
    /\ \/ pc'[r] = "record" /\ loc'[r].answer.by = {}
       \/ pc'[r] = "serve" /\ loc'[r].answer = loc[r].answer
    /\ SameCall(loc'[r], loc[r]) /\ SameRule(loc'[r], loc[r]) /\ SameWork(loc'[r], loc[r])
    /\ loc'[r].unread = loc[r].unread /\ loc'[r].asked = loc[r].asked
    /\ Counting(r)
    /\ UNCHANGED <<calls, log>>

\* A delivery ends: a second one follows, with nothing answered yet, or none.
Delivering(r, answer) ==
    \/ pc'[r] = "serve" /\ loc'[r].answer = Silence
    \/ pc'[r] = "record" /\ loc'[r].answer = answer

Replaying(r) ==
    LET row == calls[CallKey(loc[r].req)]
    IN  /\ pc[r] = "serve" /\ Keyed(r) /\ Recalled(row, loc[r].req) /\ Delivering(r, row.answer)
        /\ SameCall(loc'[r], loc[r]) /\ SameRule(loc'[r], loc[r]) /\ SameWork(loc'[r], loc[r])
        /\ loc'[r].unread = loc[r].unread /\ loc'[r].asked = loc[r].asked
        /\ UNCHANGED tables

Missing(r) ==
    /\ pc[r] = "serve" /\ pc'[r] = "work"
    /\ loc'[r].asked = IF Keyed(r) THEN now ELSE loc[r].asked
    /\ failures' = 0 /\ Keyed(r) => ~Recalled(calls[CallKey(loc[r].req)], loc[r].req)
    /\ SameCall(loc'[r], loc[r]) /\ SameRule(loc'[r], loc[r]) /\ SameWork(loc'[r], loc[r])
    /\ SameBody(loc'[r], loc[r]) /\ loc'[r].answer = loc[r].answer
    /\ UNCHANGED tables

Refusing(r) ==
    /\ pc[r] = "work" /\ Delivering(r, Answer("refusal", {}))
    /\ loc'[r].unread => loc[r].unread
    /\ SameCall(loc'[r], loc[r]) /\ SameRule(loc'[r], loc[r]) /\ SameWork(loc'[r], loc[r])
    /\ loc'[r].asked = loc[r].asked
    /\ UNCHANGED tables

Working(r) ==
    /\ pc[r] = "work" /\ loc[r].unread /\ loc'[r].works = loc[r].works + 1 /\ ~loc'[r].unread
    /\ \/ pc'[r] = "remember" /\ Keyed(r) /\ loc'[r].answer = Answer("result", {r})
       \/ /\ \E a \in {Answer("result", {r}), Answer("refusal", {})} : Delivering(r, a)
          /\ failures' = 0 => ~Keyed(r)
    /\ SameCall(loc'[r], loc[r]) /\ SameRule(loc'[r], loc[r])
    /\ loc'[r].kept = loc[r].kept /\ loc'[r].asked = loc[r].asked
    /\ UNCHANGED tables

Remembering(r) ==
    LET k == CallKey(loc[r].req)
    IN  /\ pc[r] = "remember" /\ loc'[r].kept = now /\ Delivering(r, loc[r].answer)
        /\ \/ calls' = [calls EXCEPT ![k] = Remembered(@, loc[r].req, loc[r].answer)]
           \/ calls' = calls /\ failures' # 0
        /\ SameCall(loc'[r], loc[r]) /\ SameRule(loc'[r], loc[r])
        /\ loc'[r].works = loc[r].works /\ loc'[r].unread = loc[r].unread
        /\ loc'[r].asked = loc[r].asked
        /\ UNCHANGED <<rules, log>>

Recording(r) ==
    LET refused == Entry(r).rule # 0 /\ rules[loc[r].rule] = NoRule
    IN  /\ pc[r] = "record" /\ pc'[r] = "done" /\ loc'[r] = loc[r]
        /\ \/ log' = [log EXCEPT ![r] = IF refused THEN @ ELSE Entry(r)]
           \/ log' = log /\ failures' # 0
        /\ UNCHANGED <<rules, calls>>

(* Where a call goes next and what it holds then.                               *)
LEMMA GoesTo ==
    ASSUME Shaped, NEW r \in Requests, NEW label \in Steps, NEW g \in Held,
           pc' = [pc EXCEPT ![r] = label], loc' = [loc EXCEPT ![r] = g],
           failures' = failures \/ failures' = failures + 1,
           now' = now, edits' = edits, granted' = granted, nextRule' = nextRule, allow' = allow
    PROVE  Only(r) /\ pc'[r] = label /\ loc'[r] = g
  BY DEF Shaped, Only

\* What an arrival does.
LEMMA ArrivesDoes ==
    ASSUME Shaped, NEW r \in Requests, NEW q \in Arrivals,
           Admit(r, q) \/ TurnAway(r, q) \/ AdmitFails(r, q)
    PROVE  Only(r) /\ Arriving(r)
  <1>1. PICK a \in Answers, label \in {"rules", "done"} :
           Arrives(r, q, a, label) /\ a.by = {} /\ (failures' = failures \/ failures' = failures + 1)
    BY AnswersAre DEF Admit, TurnAway, AdmitFails, Sound, Broken, Turned, Silence, Answer
  <1> DEFINE g1 == [Fresh EXCEPT !.req = q]
             g2 == [g1 EXCEPT !.before = Finished]
             g  == [g2 EXCEPT !.answer = a]
  <1>2. Fresh \in Held /\ Fresh.unread /\ Fresh.seen = 0
    BY AnswersAre DEF Fresh, Held
  <1>3. /\ g1 \in Held /\ g1.req = q /\ SameRule(g1, Fresh) /\ SameWork(g1, Fresh)
        /\ g1.unread = Fresh.unread /\ g1.seen = Fresh.seen /\ g1.asked = Fresh.asked
    BY <1>2, ReqSet
  <1> HIDE DEF g1
  <1>4. /\ g2 \in Held /\ g2.req = g1.req /\ g2.before = Finished /\ SameRule(g2, g1)
        /\ SameWork(g2, g1) /\ g2.unread = g1.unread /\ g2.seen = g1.seen /\ g2.asked = g1.asked
    <2>1. Finished \in SUBSET Requests
      BY DEF Finished
    <2> QED BY <1>3, <2>1, BeforeSet
  <1> HIDE DEF g2
  <1>5. /\ g \in Held /\ g.answer = a /\ SameCall(g, g2) /\ SameRule(g, g2)
        /\ SameWork(g, g2) /\ SameBody(g, g2) /\ g.seen = g2.seen /\ g.asked = g2.asked
    BY <1>4, AnswerSet
  <1>6. loc' = [loc EXCEPT ![r] = g]
    <2>1. loc' = [loc EXCEPT ![r] = [Fresh EXCEPT !.req = q, !.before = Finished, !.answer = a]]
      BY <1>1 DEF Arrives
    <2>2. [Fresh EXCEPT !.req = q, !.before = Finished, !.answer = a] = g
      BY DEF g1, g2
    <2> QED BY <2>1, <2>2
  <1> HIDE DEF g
  <1>7. pc' = [pc EXCEPT ![r] = label] /\ pc[r] = "new" /\ Cardinality(InFlight) < MaxInFlight
    BY <1>1 DEF Arrives, Goto
  <1>10. UNCHANGED tables
    BY <1>1 DEF Arrives
  <1>11. now' = now /\ edits' = edits /\ granted' = granted /\ nextRule' = nextRule /\ allow' = allow
    BY <1>1, <1>10 DEF Arrives, Quiet, tables
  <1>8. Only(r) /\ pc'[r] = label /\ loc'[r] = g
    BY <1>1, <1>5, <1>6, <1>7, <1>11, GoesTo DEF Steps
  <1>9. /\ g.req = q /\ g.answer = a /\ g.before = Finished /\ g.unread /\ g.seen = 0
        /\ SameRule(g, Fresh) /\ SameWork(g, Fresh) /\ g.asked = Fresh.asked
    BY <1>2, <1>3, <1>4, <1>5 DEF SameCall, SameRule, SameWork, SameBody
  <1> QED BY <1>1, <1>7, <1>8, <1>9, <1>10 DEF Arriving

(* What Evaluate may choose: nothing, or a row with a use left.                 *)
LEMMA DecisionsAre ==
    ASSUME Shaped, NEW q, NEW i \in Decisions(rules, Service, q)
    PROVE  /\ i \in RuleIds \union {0}
           /\ i # 0 => /\ rules[i] # NoRule /\ rules[i] \in RuleRow
                       /\ rules[i].left = Unlimited \/ rules[i].left > 0
  <1>1. DOMAIN rules = RuleIds
    BY DEF Shaped
  <1>2. i = 0 \/ /\ i \in RuleIds /\ rules[i] # NoRule /\ ~Exhausted(rules[i])
    BY <1>1 DEF Decisions, Active
  <1>3. i # 0 => rules[i] \in RuleRow
    BY <1>2 DEF Shaped
  <1> QED BY <1>2, <1>3, PipelineAssumption DEF Exhausted, RuleRow

\* What a decision of the engine does.
LEMMA EvaluateDoes ==
    ASSUME Shaped, NEW r \in Requests, Evaluate(r) PROVE Only(r) /\ Deciding(r)
  <1>1. PICK i \in Decisions(rules, Service, loc[r].req) :
          /\ loc' = [loc EXCEPT ![r].rule = i,
                                ![r].act = IF i = 0 THEN "none" ELSE rules[i].action]
          /\ Goto(r, IF i # 0 /\ rules[i].left # Unlimited THEN "consume" ELSE "hit")
    BY DEF Evaluate
  <1> DEFINE h == loc[r]
             g1 == [h EXCEPT !.rule = i]
             act == IF i = 0 THEN "none" ELSE rules[i].action
             g == [g1 EXCEPT !.act = act]
             label == IF i # 0 /\ rules[i].left # Unlimited THEN "consume" ELSE "hit"
  <1>2. h \in Held /\ pc[r] = "rules"
    BY DEF Shaped, Evaluate
  <1>3. /\ i \in RuleIds \union {0}
        /\ i # 0 => /\ rules[i] # NoRule /\ rules[i] \in RuleRow
                    /\ rules[i].left = Unlimited \/ rules[i].left > 0
    BY DecisionsAre
  <1>4. act \in Actions \union {"none"}
    <2>1. i # 0 => rules[i].action \in Actions
      BY <1>3 DEF RuleRow
    <2> QED BY <2>1
  <1>14. label \in Steps
    BY DEF Steps
  <1>5. loc' = [loc EXCEPT ![r] = g]
    BY <1>1
  <1> HIDE DEF act, h
  <1>6. /\ g1 \in Held /\ g1.rule = i /\ SameCall(g1, h) /\ SameWork(g1, h)
        /\ SameBody(g1, h) /\ g1.answer = h.answer /\ g1.asked = h.asked
    BY <1>2, <1>3, RuleSet
  <1> HIDE DEF g1
  <1>7. /\ g \in Held /\ g.rule = g1.rule /\ g.act = act /\ SameCall(g, g1) /\ SameWork(g, g1)
        /\ SameBody(g, g1) /\ g.answer = g1.answer /\ g.asked = g1.asked
    BY <1>4, <1>6, ActSet
  <1> HIDE DEF g
  <1>8. /\ g.rule = i /\ SameCall(g, h) /\ SameWork(g, h) /\ SameBody(g, h)
        /\ g.answer = h.answer /\ g.asked = h.asked
    BY <1>6, <1>7 DEF SameCall, SameWork, SameBody
  <1>15. pc' = [pc EXCEPT ![r] = label] /\ failures' = failures
    BY <1>1 DEF Goto, Evaluate, Still, Sound
  <1>16. now' = now /\ edits' = edits /\ granted' = granted /\ nextRule' = nextRule /\ allow' = allow
    BY DEF Evaluate, Still, Quiet, tables
  <1>9. Only(r) /\ pc'[r] = label /\ loc'[r] = g
    BY <1>14, <1>5, <1>7, <1>15, <1>16, GoesTo
  <1>10. UNCHANGED tables
    BY DEF Evaluate, Still
  <1>11. i = 0 => g.act = "none" /\ label = "hit"
    BY <1>7 DEF act
  <1>12. i # 0 => label = IF rules[i].left = Unlimited THEN "hit" ELSE "consume"
    OBVIOUS
  <1> HIDE DEF label
  <1>13. h = loc[r]
    BY DEF h
  <1>17. \E j \in RuleIds \union {0} :
           /\ loc'[r].rule = j
           /\ j = 0 => loc'[r].act = "none" /\ pc'[r] = "hit"
           /\ j # 0 => /\ rules[j] # NoRule /\ (rules[j].left = Unlimited \/ rules[j].left > 0)
                       /\ pc'[r] = IF rules[j].left = Unlimited THEN "hit" ELSE "consume"
    BY <1>3, <1>8, <1>9, <1>11, <1>12
  <1> QED
    BY <1>2, <1>8, <1>9, <1>10, <1>13, <1>17 DEF Deciding

\* The same for a step that leaves what the call holds alone.
LEMMA GoesOn ==
    ASSUME Shaped, NEW r \in Requests, NEW label \in Steps,
           pc' = [pc EXCEPT ![r] = label], loc' = loc,
           failures' = failures \/ failures' = failures + 1,
           now' = now, edits' = edits, granted' = granted, nextRule' = nextRule, allow' = allow
    PROVE  Only(r) /\ pc'[r] = label /\ loc'[r] = loc[r]
  BY DEF Shaped, Only

\* A call that no rule decides goes on to the handler.
LEMMA UnruledDoes ==
    ASSUME Shaped, NEW r \in Requests, pc[r] \in {"rules", "consume"}, Unruled(r),
           failures' = failures \/ failures' = failures + 1,
           now' = now, edits' = edits, granted' = granted, UNCHANGED tables
    PROVE  Only(r) /\ Dismissing(r)
  <1> DEFINE h == loc[r]
             g1 == [h EXCEPT !.rule = 0]
             g == [g1 EXCEPT !.act = "none"]
  <1>1. h \in Held
    BY DEF Shaped
  <1>2. loc' = [loc EXCEPT ![r] = g] /\ pc' = [pc EXCEPT ![r] = "serve"]
    BY DEF Unruled, Goto
  <1>3. h = loc[r]
    OBVIOUS
  <1> HIDE DEF h
  <1>4. /\ g1 \in Held /\ g1.rule = 0 /\ SameCall(g1, h) /\ SameWork(g1, h)
        /\ SameBody(g1, h) /\ g1.answer = h.answer /\ g1.asked = h.asked
    BY <1>1, RuleSet
  <1> HIDE DEF g1
  <1>5. /\ g \in Held /\ g.rule = g1.rule /\ g.act = "none" /\ SameCall(g, g1) /\ SameWork(g, g1)
        /\ SameBody(g, g1) /\ g.answer = g1.answer /\ g.asked = g1.asked
    BY <1>4, ActSet
  <1> HIDE DEF g
  <1>6. /\ g.rule = 0 /\ SameCall(g, h) /\ SameWork(g, h) /\ SameBody(g, h)
        /\ g.answer = h.answer /\ g.asked = h.asked
    BY <1>4, <1>5 DEF SameCall, SameWork, SameBody
  <1>7. "serve" \in Steps /\ nextRule' = nextRule /\ allow' = allow
    BY DEF Steps, tables
  <1>8. Only(r) /\ pc'[r] = "serve" /\ loc'[r] = g
    BY <1>2, <1>5, <1>7, GoesTo
  <1> QED BY <1>3, <1>5, <1>6, <1>8 DEF Dismissing

\* A failure of Evaluate lets the call go on.
LEMMA EvaluateFailsDoes ==
    ASSUME Shaped, NEW r \in Requests, EvaluateFails(r) PROVE Only(r) /\ Dismissing(r)
  BY UnruledDoes DEF EvaluateFails, Broken, Quiet

\* A failure of Consume lets the call go on.
LEMMA ConsumeFailsDoes ==
    ASSUME Shaped, NEW r \in Requests, ConsumeFails(r) PROVE Only(r) /\ Dismissing(r)
  BY UnruledDoes DEF ConsumeFails, Broken, Quiet

\* What spending a use does.
LEMMA ConsumeDoes ==
    ASSUME Shaped, NEW r \in Requests, Consume(r)
    PROVE  Only(r) /\ (Consuming(r) \/ Dismissing(r))
  <1>1. /\ pc[r] = "consume" /\ failures' = failures
        /\ now' = now /\ edits' = edits /\ granted' = granted
        /\ nextRule' = nextRule /\ allow' = allow /\ calls' = calls /\ log' = log
    BY DEF Consume, Sound, Quiet
  <1>2. CASE /\ rules[loc[r].rule] # NoRule
             /\ rules' = [rules EXCEPT ![loc[r].rule] = Consumed(@)]
             /\ Goto(r, "hit") /\ UNCHANGED loc
    <2>1. "hit" \in Steps /\ pc' = [pc EXCEPT ![r] = "hit"]
      BY <1>2 DEF Steps, Goto
    <2>2. Only(r) /\ pc'[r] = "hit" /\ loc'[r] = loc[r]
      BY <1>1, <1>2, <2>1, GoesOn
    <2> QED BY <1>1, <1>2, <2>2 DEF Consuming
  <1>3. CASE rules[loc[r].rule] = NoRule /\ Unruled(r) /\ UNCHANGED rules
    <2>1. UNCHANGED tables
      BY <1>1, <1>3 DEF tables
    <2> QED BY <1>1, <1>3, <2>1, UnruledDoes
  <1> QED BY <1>2, <1>3 DEF Consume

\* What counting a hit and applying the action does.
LEMMA ApplyDoes ==
    ASSUME Shaped, NEW r \in Requests, Apply(r) PROVE Only(r) /\ Applying(r)
  <1> DEFINE h == loc[r]
  <1>1. /\ pc[r] = "hit" /\ (failures' = failures \/ failures' = failures + 1)
        /\ now' = now /\ edits' = edits /\ granted' = granted
        /\ nextRule' = nextRule /\ allow' = allow /\ calls' = calls /\ log' = log
    BY DEF Apply, Sound, Quiet, Broken
  <1>2. Counting(r)
    BY DEF Apply, Counting
  <1>3. h \in Held /\ "record" \in Steps /\ "serve" \in Steps
    BY DEF Shaped, Steps
  <1>7. UNCHANGED <<calls, log>>
    BY <1>1
  <1>4. CASE h.act \in DOMAIN FaultAnswer /\ Set(r, "record", "answer", Answer(FaultAnswer[h.act], {}))
    <2> DEFINE a == Answer(FaultAnswer[h.act], {})
               g == [h EXCEPT !.answer = a]
    <2>1. a \in Answers /\ a.by = {}
      BY <1>4, AnswersAre DEF Answer
    <2>2. loc' = [loc EXCEPT ![r] = g] /\ pc' = [pc EXCEPT ![r] = "record"]
      BY <1>4 DEF Set, Goto
    <2> HIDE DEF a
    <2>3. /\ g \in Held /\ g.answer = a /\ SameCall(g, h) /\ SameRule(g, h) /\ SameWork(g, h)
          /\ SameBody(g, h) /\ g.asked = h.asked
      BY <1>3, <2>1, AnswerSet
    <2> HIDE DEF g
    <2>4. Only(r) /\ pc'[r] = "record" /\ loc'[r] = g
      BY <1>1, <1>3, <2>2, <2>3, GoesTo
    <2>5. \/ pc'[r] = "record" /\ loc'[r].answer.by = {}
          \/ pc'[r] = "serve" /\ loc'[r].answer = loc[r].answer
      BY <2>1, <2>3, <2>4
    <2>6. /\ SameCall(loc'[r], loc[r]) /\ SameRule(loc'[r], loc[r]) /\ SameWork(loc'[r], loc[r])
          /\ loc'[r].unread = loc[r].unread /\ loc'[r].asked = loc[r].asked
      BY <2>1, <2>3, <2>4 DEF SameBody
    <2> QED BY <1>1, <1>2, <1>7, <2>4, <2>5, <2>6 DEF Applying
  <1>5. CASE h.act = "duplicate" /\ Set(r, "serve", "again", TRUE)
    <2> DEFINE g == [h EXCEPT !.again = TRUE]
    <2>2. loc' = [loc EXCEPT ![r] = g] /\ pc' = [pc EXCEPT ![r] = "serve"]
      BY <1>5 DEF Set, Goto
    <2>3. /\ g \in Held /\ g.answer = h.answer /\ SameCall(g, h) /\ SameRule(g, h) /\ SameWork(g, h)
          /\ g.unread = h.unread /\ g.asked = h.asked
      BY <1>3, AgainSet
    <2> HIDE DEF g
    <2>4. Only(r) /\ pc'[r] = "serve" /\ loc'[r] = g
      BY <1>1, <1>3, <2>2, <2>3, GoesTo
    <2>5. \/ pc'[r] = "record" /\ loc'[r].answer.by = {}
          \/ pc'[r] = "serve" /\ loc'[r].answer = loc[r].answer
      BY <2>3, <2>4
    <2>6. /\ SameCall(loc'[r], loc[r]) /\ SameRule(loc'[r], loc[r]) /\ SameWork(loc'[r], loc[r])
          /\ loc'[r].unread = loc[r].unread /\ loc'[r].asked = loc[r].asked
      BY <2>3, <2>4
    <2> QED BY <1>1, <1>2, <1>7, <2>4, <2>5, <2>6 DEF Applying
  <1>6. CASE h.act \in {"none", "passthrough", "delay"} /\ Goto(r, "serve") /\ UNCHANGED loc
    <2>1. pc' = [pc EXCEPT ![r] = "serve"] /\ loc' = loc
      BY <1>6 DEF Goto
    <2>4. Only(r) /\ pc'[r] = "serve" /\ loc'[r] = loc[r]
      BY <1>1, <1>3, <2>1, GoesOn
    <2>5. \/ pc'[r] = "record" /\ loc'[r].answer.by = {}
          \/ pc'[r] = "serve" /\ loc'[r].answer = loc[r].answer
      BY <2>4
    <2>6. /\ SameCall(loc'[r], loc[r]) /\ SameRule(loc'[r], loc[r]) /\ SameWork(loc'[r], loc[r])
          /\ loc'[r].unread = loc[r].unread /\ loc'[r].asked = loc[r].asked
      BY <2>4 DEF SameCall, SameRule, SameWork
    <2> QED BY <1>1, <1>2, <1>7, <2>4, <2>5, <2>6 DEF Applying
  <1> QED BY <1>4, <1>5, <1>6 DEF Apply

\* What delivering an answer to the log does.
LEMMA DeliveredDoes ==
    ASSUME Shaped, NEW r \in Requests, NEW u \in Held, Delivered(r, u),
           failures' = failures \/ failures' = failures + 1,
           now' = now, edits' = edits, granted' = granted, nextRule' = nextRule, allow' = allow
    PROVE  /\ Only(r) /\ Delivering(r, u.answer)
           /\ SameCall(loc'[r], u) /\ SameRule(loc'[r], u) /\ SameWork(loc'[r], u)
           /\ loc'[r].unread = u.unread /\ loc'[r].asked = u.asked
  <1> DEFINE g1 == [u EXCEPT !.again = FALSE]
             a == IF loc[r].again THEN Silence ELSE u.answer
             g == [g1 EXCEPT !.answer = a]
             label == IF loc[r].again THEN "serve" ELSE "record"
  <1>1. /\ g1 \in Held /\ SameCall(g1, u) /\ SameRule(g1, u) /\ SameWork(g1, u)
        /\ g1.unread = u.unread /\ g1.answer = u.answer /\ g1.asked = u.asked
    BY AgainSet
  <1>2. loc' = [loc EXCEPT ![r] = g] /\ pc' = [pc EXCEPT ![r] = label]
    BY <1>1 DEF Delivered, Goto
  <1>3. a \in Answers /\ label \in Steps
    <2>1. u.answer \in Answers
      BY DEF Held
    <2>2. a \in Answers
      BY <2>1, AnswersAre
    <2> QED BY <2>2 DEF Steps
  <1>5. \/ label = "serve" /\ a = Silence
        \/ label = "record" /\ a = u.answer
    OBVIOUS
  <1> HIDE DEF a, g1, label
  <1>6. /\ g \in Held /\ g.answer = a /\ SameCall(g, g1) /\ SameRule(g, g1)
        /\ SameWork(g, g1) /\ SameBody(g, g1) /\ g.asked = g1.asked
    BY <1>1, <1>3, AnswerSet
  <1> HIDE DEF g
  <1>7. Only(r) /\ pc'[r] = label /\ loc'[r] = g
    BY <1>2, <1>3, <1>6, GoesTo
  <1>8. /\ SameCall(g, u) /\ SameRule(g, u) /\ SameWork(g, u)
        /\ g.unread = u.unread /\ g.asked = u.asked
    BY <1>1, <1>6 DEF SameCall, SameRule, SameWork, SameBody
  <1>9. Delivering(r, u.answer)
    BY <1>5, <1>6, <1>7 DEF Delivering
  <1> QED BY <1>6, <1>7, <1>8, <1>9

\* What looking for a stored answer does.
LEMMA RecallDoes ==
    ASSUME Shaped, NEW r \in Requests, loc[r].req \in Arrivals, Recall(r)
    PROVE  Only(r) /\ (Replaying(r) \/ Missing(r))
  <1> DEFINE h == loc[r]
             row == calls[CallKey(h.req)]
  <1>1. /\ pc[r] = "serve" /\ failures' = failures /\ UNCHANGED tables
        /\ now' = now /\ edits' = edits /\ granted' = granted
    BY DEF Recall, Sound, Quiet
  <1>2. nextRule' = nextRule /\ allow' = allow
    BY <1>1 DEF tables
  <1>3. h \in Held /\ "work" \in Steps /\ h.asked \in Nat /\ now \in Nat
    BY DEF Shaped, Steps, Held
  <1>4. row \in CallRow \union {NoCall}
    <2>1. CallKey(h.req) \in Keys
      BY DEF Keys
    <2> QED BY <2>1 DEF Shaped
  <1> HIDE DEF row
  <1>5. CASE /\ Keyed(r) /\ Recalled(row, h.req)
             /\ Delivered(r, [h EXCEPT !.seen = @ + 1, !.answer = row.answer])
    <2> DEFINE v == h.seen + 1
               g1 == [h EXCEPT !.seen = v]
               g == [g1 EXCEPT !.answer = row.answer]
    <2>1. v \in Nat /\ row.answer \in Answers
      BY <1>3, <1>4, <1>5 DEF Held, Recalled, CallRow
    <2>2. Delivered(r, g)
      BY <1>5
    <2> HIDE DEF v
    <2>3. /\ g1 \in Held /\ SameCall(g1, h) /\ SameRule(g1, h) /\ SameWork(g1, h)
          /\ SameBody(g1, h) /\ g1.asked = h.asked
      BY <1>3, <2>1, SeenSet
    <2> HIDE DEF g1
    <2>4. /\ g \in Held /\ g.answer = row.answer /\ SameCall(g, g1) /\ SameRule(g, g1)
          /\ SameWork(g, g1) /\ SameBody(g, g1) /\ g.asked = g1.asked
      BY <2>1, <2>3, AnswerSet
    <2> HIDE DEF g
    <2>5. /\ Only(r) /\ Delivering(r, g.answer)
          /\ SameCall(loc'[r], g) /\ SameRule(loc'[r], g) /\ SameWork(loc'[r], g)
          /\ loc'[r].unread = g.unread /\ loc'[r].asked = g.asked
      BY <1>1, <1>2, <2>2, <2>4, DeliveredDoes
    <2>6. /\ SameCall(loc'[r], h) /\ SameRule(loc'[r], h) /\ SameWork(loc'[r], h)
          /\ loc'[r].unread = h.unread /\ loc'[r].asked = h.asked
      BY <2>3, <2>4, <2>5 DEF SameCall, SameRule, SameWork, SameBody
    <2>7. Delivering(r, row.answer)
      BY <2>4, <2>5
    <2> QED BY <1>1, <1>5, <2>5, <2>6, <2>7 DEF Replaying, row
  <1>6. CASE /\ ~(Keyed(r) /\ Recalled(row, h.req))
             /\ Set(r, "work", "asked", IF Keyed(r) THEN now ELSE h.asked)
    <2> DEFINE v == IF Keyed(r) THEN now ELSE h.asked
               g == [h EXCEPT !.asked = v]
    <2>1. v \in Nat
      BY <1>3
    <2>2. loc' = [loc EXCEPT ![r] = g] /\ pc' = [pc EXCEPT ![r] = "work"]
      BY <1>6 DEF Set, Goto
    <2>7. v = IF Keyed(r) THEN now ELSE h.asked
      OBVIOUS
    <2> HIDE DEF v
    <2>3. /\ g \in Held /\ g.asked = v /\ SameCall(g, h) /\ SameRule(g, h) /\ SameWork(g, h)
          /\ SameBody(g, h) /\ g.answer = h.answer
      BY <1>3, <2>1, AskedSet
    <2> HIDE DEF g
    <2>4. Only(r) /\ pc'[r] = "work" /\ loc'[r] = g
      BY <1>1, <1>2, <1>3, <2>2, <2>3, GoesTo
    <2>5. Keyed(r) => ~Recalled(calls[CallKey(loc[r].req)], loc[r].req)
      BY <1>6 DEF row
    <2> QED BY <1>1, <2>3, <2>4, <2>5, <2>7 DEF Missing
  <1>7. \/ /\ Keyed(r) /\ Recalled(row, h.req)
           /\ Delivered(r, [h EXCEPT !.seen = @ + 1, !.answer = row.answer])
        \/ /\ ~(Keyed(r) /\ Recalled(row, h.req))
           /\ Set(r, "work", "asked", IF Keyed(r) THEN now ELSE h.asked)
    BY DEF Recall, row
  <1> QED BY <1>5, <1>6, <1>7

\* What a failed look does.
LEMMA RecallFailsDoes ==
    ASSUME Shaped, NEW r \in Requests, RecallFails(r) PROVE Only(r) /\ Missing(r)
  <1> DEFINE h == loc[r]
             g == [h EXCEPT !.asked = now]
  <1>1. /\ pc[r] = "serve" /\ Keyed(r) /\ failures' = failures + 1 /\ UNCHANGED tables
        /\ now' = now /\ edits' = edits /\ granted' = granted
    BY DEF RecallFails, Broken, Quiet
  <1>2. nextRule' = nextRule /\ allow' = allow
    BY <1>1 DEF tables
  <1>3. h \in Held /\ "work" \in Steps /\ now \in Nat /\ failures \in Nat
    BY DEF Shaped, Steps
  <1>4. loc' = [loc EXCEPT ![r] = g] /\ pc' = [pc EXCEPT ![r] = "work"]
    BY DEF RecallFails, Set, Goto
  <1>5. /\ g \in Held /\ g.asked = now /\ SameCall(g, h) /\ SameRule(g, h) /\ SameWork(g, h)
        /\ SameBody(g, h) /\ g.answer = h.answer
    BY <1>3, AskedSet
  <1> HIDE DEF g
  <1>6. Only(r) /\ pc'[r] = "work" /\ loc'[r] = g
    BY <1>1, <1>2, <1>3, <1>4, <1>5, GoesTo
  <1>7. failures' # 0
    BY <1>1, <1>3
  <1> QED BY <1>1, <1>5, <1>6, <1>7 DEF Missing

\* What a refusal of the handler does.
LEMMA RefuseDoes ==
    ASSUME Shaped, NEW r \in Requests, Refuse(r) PROVE Only(r) /\ Refusing(r)
  <1> DEFINE h == loc[r]
             v == Service = "merchant" /\ ~Authorized(h.req) /\ h.unread
             n == h.seen + (IF h.unread THEN 1 ELSE 0)
             a == Answer("refusal", {})
             g1 == [h EXCEPT !.unread = v]
             g2 == [g1 EXCEPT !.seen = n]
             g == [g2 EXCEPT !.answer = a]
  <1>1. /\ pc[r] = "work" /\ failures' = failures /\ UNCHANGED tables
        /\ now' = now /\ edits' = edits /\ granted' = granted
    BY DEF Refuse, Sound, Quiet
  <1>2. nextRule' = nextRule /\ allow' = allow
    BY <1>1 DEF tables
  <1>3. h \in Held
    BY DEF Shaped
  <1>4. v \in BOOLEAN /\ n \in Nat /\ a \in Answers /\ (v => h.unread)
    BY <1>3, AnswersAre DEF Held
  <1>5. /\ g1 \in Held /\ g1.unread = v /\ SameCall(g1, h) /\ SameRule(g1, h) /\ SameWork(g1, h)
        /\ g1.seen = h.seen /\ g1.asked = h.asked
    BY <1>3, <1>4, UnreadSet
  <1>6. Delivered(r, g)
    BY <1>3, <1>5 DEF Refuse
  <1> HIDE DEF v, n, a, g1
  <1>7. /\ g2 \in Held /\ SameCall(g2, g1) /\ SameRule(g2, g1) /\ SameWork(g2, g1)
        /\ SameBody(g2, g1) /\ g2.asked = g1.asked
    BY <1>4, <1>5, SeenSet
  <1> HIDE DEF g2
  <1>8. /\ g \in Held /\ g.answer = a /\ SameCall(g, g2) /\ SameRule(g, g2)
        /\ SameWork(g, g2) /\ SameBody(g, g2) /\ g.asked = g2.asked
    BY <1>4, <1>7, AnswerSet
  <1> HIDE DEF g
  <1>9. /\ Only(r) /\ Delivering(r, g.answer)
        /\ SameCall(loc'[r], g) /\ SameRule(loc'[r], g) /\ SameWork(loc'[r], g)
        /\ loc'[r].unread = g.unread /\ loc'[r].asked = g.asked
    BY <1>1, <1>2, <1>6, <1>8, DeliveredDoes
  <1>10. /\ SameCall(loc'[r], h) /\ SameRule(loc'[r], h) /\ SameWork(loc'[r], h)
         /\ loc'[r].unread = v /\ loc'[r].asked = h.asked
    BY <1>5, <1>7, <1>8, <1>9 DEF SameCall, SameRule, SameWork, SameBody
  <1>11. Delivering(r, Answer("refusal", {}))
    BY <1>8, <1>9 DEF a
  <1> QED BY <1>1, <1>4, <1>9, <1>10, <1>11 DEF Refusing

\* What the handler does.
LEMMA WorkDoes ==
    ASSUME Shaped, NEW r \in Requests, Work(r) PROVE Only(r) /\ Working(r)
  <1> DEFINE h == loc[r]
             w == h.works + 1
             n == h.seen + 1
             g1 == [h EXCEPT !.unread = FALSE]
             g2 == [g1 EXCEPT !.works = w]
             g3 == [g2 EXCEPT !.seen = n]
             done == [g3 EXCEPT !.answer = Answer("result", {r})]
             lost == [done EXCEPT !.answer = Answer("refusal", {})]
  <1>1. /\ pc[r] = "work" /\ h.unread /\ UNCHANGED tables
        /\ now' = now /\ edits' = edits /\ granted' = granted
    BY DEF Work, Quiet
  <1>2. nextRule' = nextRule /\ allow' = allow
    BY <1>1 DEF tables
  <1>3. h \in Held /\ failures \in Nat /\ "remember" \in Steps
    BY DEF Shaped, Steps
  <1>4. w \in Nat /\ n \in Nat
    BY <1>3 DEF Held
  <1>5. /\ g1 \in Held /\ g1.unread = FALSE /\ SameCall(g1, h) /\ SameRule(g1, h) /\ SameWork(g1, h)
        /\ g1.seen = h.seen /\ g1.asked = h.asked
    BY <1>3, UnreadSet
  <1>6. \/ Sound /\ Keyed(r) /\ loc' = [loc EXCEPT ![r] = done] /\ Goto(r, "remember")
        \/ Sound /\ ~Keyed(r) /\ Delivered(r, done)
        \/ Broken /\ Delivered(r, lost)
    BY <1>3, <1>5 DEF Work
  <1> HIDE DEF n, g1
  <1>7. /\ g2 \in Held /\ g2.works = w /\ g2.kept = g1.kept /\ SameCall(g2, g1) /\ SameRule(g2, g1)
        /\ SameBody(g2, g1) /\ g2.asked = g1.asked
    BY <1>4, <1>5, WorksSet
  <1> HIDE DEF g2
  <1>8. /\ g3 \in Held /\ SameCall(g3, g2) /\ SameRule(g3, g2) /\ SameWork(g3, g2)
        /\ SameBody(g3, g2) /\ g3.asked = g2.asked
    BY <1>4, <1>7, SeenSet
  <1> HIDE DEF g3
  <1>9. /\ done \in Held /\ done.answer = Answer("result", {r}) /\ SameCall(done, g3)
        /\ SameRule(done, g3) /\ SameWork(done, g3) /\ SameBody(done, g3) /\ done.asked = g3.asked
    BY <1>8, AnswersAre, AnswerSet
  <1> HIDE DEF done
  <1>10. /\ lost \in Held /\ lost.answer = Answer("refusal", {}) /\ SameCall(lost, done)
         /\ SameRule(lost, done) /\ SameWork(lost, done) /\ SameBody(lost, done)
         /\ lost.asked = done.asked
    BY <1>9, AnswersAre, AnswerSet
  <1> HIDE DEF lost
  <1>11. /\ SameCall(done, h) /\ SameRule(done, h) /\ ~done.unread
         /\ done.works = w /\ done.kept = h.kept /\ done.asked = h.asked
    BY <1>5, <1>7, <1>8, <1>9 DEF SameCall, SameRule, SameWork, SameBody
  <1>12. /\ SameCall(lost, h) /\ SameRule(lost, h) /\ ~lost.unread
         /\ lost.works = w /\ lost.kept = h.kept /\ lost.asked = h.asked
    BY <1>10, <1>11 DEF SameCall, SameRule, SameWork, SameBody
  <1>13. CASE Sound /\ Keyed(r) /\ loc' = [loc EXCEPT ![r] = done] /\ Goto(r, "remember")
    <2>1. pc' = [pc EXCEPT ![r] = "remember"] /\ failures' = failures
      BY <1>13 DEF Goto, Sound
    <2>2. Only(r) /\ pc'[r] = "remember" /\ loc'[r] = done
      BY <1>1, <1>2, <1>3, <1>9, <1>13, <2>1, GoesTo
    <2> QED BY <1>1, <1>9, <1>11, <1>13, <2>2 DEF Working
  <1>14. CASE Sound /\ ~Keyed(r) /\ Delivered(r, done)
    <2>1. failures' = failures
      BY <1>14 DEF Sound
    <2>2. /\ Only(r) /\ Delivering(r, done.answer)
          /\ SameCall(loc'[r], done) /\ SameRule(loc'[r], done) /\ SameWork(loc'[r], done)
          /\ loc'[r].unread = done.unread /\ loc'[r].asked = done.asked
      BY <1>1, <1>2, <1>9, <1>14, <2>1, DeliveredDoes
    <2>3. /\ SameCall(loc'[r], h) /\ SameRule(loc'[r], h) /\ ~loc'[r].unread
          /\ loc'[r].works = w /\ loc'[r].kept = h.kept /\ loc'[r].asked = h.asked
      BY <1>11, <2>2 DEF SameCall, SameRule, SameWork
    <2>4. Delivering(r, Answer("result", {r}))
      BY <1>9, <2>2
    <2>5. \E a \in {Answer("result", {r}), Answer("refusal", {})} : Delivering(r, a)
      BY <2>4
    <2> QED BY <1>1, <1>14, <2>2, <2>3, <2>5 DEF Working
  <1>15. CASE Broken /\ Delivered(r, lost)
    <2>1. failures' = failures + 1 /\ failures' # 0
      BY <1>3, <1>15 DEF Broken
    <2>2. /\ Only(r) /\ Delivering(r, lost.answer)
          /\ SameCall(loc'[r], lost) /\ SameRule(loc'[r], lost) /\ SameWork(loc'[r], lost)
          /\ loc'[r].unread = lost.unread /\ loc'[r].asked = lost.asked
      BY <1>1, <1>2, <1>10, <1>15, <2>1, DeliveredDoes
    <2>3. /\ SameCall(loc'[r], h) /\ SameRule(loc'[r], h) /\ ~loc'[r].unread
          /\ loc'[r].works = w /\ loc'[r].kept = h.kept /\ loc'[r].asked = h.asked
      BY <1>12, <2>2 DEF SameCall, SameRule, SameWork
    <2>4. Delivering(r, Answer("refusal", {}))
      BY <1>10, <2>2
    <2>5. \E a \in {Answer("result", {r}), Answer("refusal", {})} : Delivering(r, a)
      BY <2>4
    <2> QED BY <1>1, <2>1, <2>2, <2>3, <2>5 DEF Working
  <1> QED BY <1>6, <1>13, <1>14, <1>15

\* What storing an answer does.
LEMMA RememberDoes ==
    ASSUME Shaped, NEW r \in Requests, Remember(r) PROVE Only(r) /\ Remembering(r)
  <1> DEFINE h == loc[r]
             g == [h EXCEPT !.kept = now]
  <1>1. /\ pc[r] = "remember" /\ (failures' = failures \/ failures' = failures + 1)
        /\ now' = now /\ edits' = edits /\ granted' = granted
        /\ rules' = rules /\ nextRule' = nextRule /\ allow' = allow /\ log' = log
    BY DEF Remember, Sound, Broken, Quiet
  <1>2. h \in Held /\ failures \in Nat /\ now \in Nat
    BY DEF Shaped
  <1>3. \/ calls' = [calls EXCEPT ![CallKey(h.req)] = Remembered(@, h.req, h.answer)]
        \/ calls' = calls /\ failures' # 0
    BY <1>2 DEF Remember, Broken
  <1>4. Delivered(r, g)
    BY DEF Remember
  <1>5. /\ g \in Held /\ g.kept = now /\ g.works = h.works /\ SameCall(g, h) /\ SameRule(g, h)
        /\ SameBody(g, h) /\ g.answer = h.answer /\ g.asked = h.asked
    BY <1>2, KeptSet
  <1> HIDE DEF g
  <1>6. /\ Only(r) /\ Delivering(r, g.answer)
        /\ SameCall(loc'[r], g) /\ SameRule(loc'[r], g) /\ SameWork(loc'[r], g)
        /\ loc'[r].unread = g.unread /\ loc'[r].asked = g.asked
    BY <1>1, <1>4, <1>5, DeliveredDoes
  <1>7. /\ SameCall(loc'[r], h) /\ SameRule(loc'[r], h) /\ loc'[r].kept = now
        /\ loc'[r].works = h.works /\ loc'[r].unread = h.unread /\ loc'[r].asked = h.asked
    BY <1>5, <1>6 DEF SameCall, SameRule, SameWork, SameBody
  <1>8. Delivering(r, h.answer) /\ UNCHANGED <<rules, log>>
    BY <1>1, <1>5, <1>6
  <1> QED BY <1>1, <1>3, <1>6, <1>7, <1>8 DEF Remembering

\* What the entry of the log does.
LEMMA RecordDoes ==
    ASSUME Shaped, NEW r \in Requests, Record(r) PROVE Only(r) /\ Recording(r)
  <1> DEFINE refused == Entry(r).rule # 0 /\ rules[loc[r].rule] = NoRule
  <1>1. /\ pc[r] = "record" /\ (failures' = failures \/ failures' = failures + 1)
        /\ now' = now /\ edits' = edits /\ granted' = granted /\ loc' = loc
        /\ rules' = rules /\ nextRule' = nextRule /\ allow' = allow /\ calls' = calls
    BY DEF Record, Sound, Broken, Quiet
  <1>2. failures \in Nat /\ "done" \in Steps
    BY DEF Shaped, Steps
  <1>3. \/ log' = [log EXCEPT ![r] = IF refused THEN @ ELSE Entry(r)]
        \/ log' = log /\ failures' # 0
    BY <1>2 DEF Record, Broken
  <1>4. pc' = [pc EXCEPT ![r] = "done"]
    BY DEF Record, Goto
  <1>5. Only(r) /\ pc'[r] = "done" /\ loc'[r] = loc[r]
    BY <1>1, <1>2, <1>4, GoesOn
  <1>6. UNCHANGED <<rules, calls>>
    BY <1>1
  <1> QED BY <1>1, <1>3, <1>5, <1>6 DEF Recording

\* What a step of call r may do.
Moves(r) ==
    \/ Arriving(r) \/ Deciding(r) \/ Dismissing(r) \/ Consuming(r) \/ Applying(r)
    \/ Replaying(r) \/ Missing(r) \/ Refusing(r) \/ Working(r) \/ Remembering(r)
    \/ Recording(r)

\* Every step of a call is one of the effects above.
LEMMA CallDoes ==
    ASSUME Shaped, NEW r \in Requests, pc[r] # "new" => loc[r].req \in Arrivals, Call(r)
    PROVE  Only(r) /\ Moves(r)
  <1>1. ASSUME NEW q \in Arrivals, Admit(r, q) \/ TurnAway(r, q) \/ AdmitFails(r, q)
        PROVE  Only(r) /\ Moves(r)
    BY <1>1, ArrivesDoes DEF Moves
  <1>2. CASE Evaluate(r)
    BY <1>2, EvaluateDoes DEF Moves
  <1>3. CASE EvaluateFails(r)
    BY <1>3, EvaluateFailsDoes DEF Moves
  <1>4. CASE Consume(r)
    BY <1>4, ConsumeDoes DEF Moves
  <1>5. CASE ConsumeFails(r)
    BY <1>5, ConsumeFailsDoes DEF Moves
  <1>6. CASE Apply(r)
    BY <1>6, ApplyDoes DEF Moves
  <1>7. CASE Recall(r)
    <2>1. loc[r].req \in Arrivals
      BY <1>7 DEF Recall
    <2> QED BY <1>7, <2>1, RecallDoes DEF Moves
  <1>8. CASE RecallFails(r)
    BY <1>8, RecallFailsDoes DEF Moves
  <1>9. CASE Refuse(r)
    BY <1>9, RefuseDoes DEF Moves
  <1>10. CASE Work(r)
    BY <1>10, WorkDoes DEF Moves
  <1>11. CASE Remember(r)
    BY <1>11, RememberDoes DEF Moves
  <1>12. CASE Record(r)
    BY <1>12, RecordDoes DEF Moves
  <1> QED
    BY <1>1, <1>2, <1>3, <1>4, <1>5, <1>6, <1>7, <1>8, <1>9, <1>10, <1>11, <1>12 DEF Call

-----------------------------------------------------------------------------
(* Rows of the rule table.                                                     *)
LEMMA LeftSet ==
    ASSUME NEW row \in RuleRow, NEW n \in Nat \union {Unlimited}
    PROVE  [row EXCEPT !.left = n] \in RuleRow /\ [row EXCEPT !.left = n].left = n
           /\ [row EXCEPT !.left = n].enabled = row.enabled
  BY DEF RuleRow

\* Writing the hits of a row.
LEMMA HitsSet ==
    ASSUME NEW row \in RuleRow, NEW n \in Nat
    PROVE  [row EXCEPT !.hits = n] \in RuleRow /\ [row EXCEPT !.hits = n].left = row.left
           /\ [row EXCEPT !.hits = n].enabled = row.enabled
  BY DEF RuleRow

\* Writing the switch of a row.
LEMMA EnabledSet ==
    ASSUME NEW row \in RuleRow, NEW b \in BOOLEAN
    PROVE  [row EXCEPT !.enabled = b] \in RuleRow /\ [row EXCEPT !.enabled = b].left = row.left
  BY DEF RuleRow

\* A row whose hit is counted.
LEMMA CountedRow ==
    ASSUME NEW row \in RuleRow
    PROVE  Counted(row) \in RuleRow /\ Counted(row).left = row.left
  <1>1. row.hits + 1 \in Nat
    BY DEF RuleRow
  <1> QED BY <1>1, HitsSet DEF Counted

\* A row of which a use is spent.
LEMMA ConsumedRow ==
    ASSUME NEW row \in RuleRow
    PROVE  /\ Consumed(row) \in RuleRow
           /\ row.left = Unlimited => Consumed(row).left = Unlimited
           /\ row.left = 0 => Consumed(row).left = 0
           /\ row.left # Unlimited /\ row.left # 0 => Consumed(row).left = row.left - 1
  <1> DEFINE n == row.hits + 1
             m == IF row.left = Unlimited \/ row.left = 0 THEN row.left ELSE row.left - 1
             b == row.enabled /\ (row.left = Unlimited \/ row.left > 1)
             g1 == [row EXCEPT !.hits = n]
             g2 == [g1 EXCEPT !.left = m]
             g == [g2 EXCEPT !.enabled = b]
  <1>1. n \in Nat /\ m \in Nat \union {Unlimited} /\ b \in BOOLEAN
    BY DEF RuleRow
  <1>2. g1 \in RuleRow /\ g1.left = row.left /\ g1.enabled = row.enabled
    BY <1>1, HitsSet
  <1>3. g2 \in RuleRow /\ g2.left = m /\ g2.enabled = row.enabled
    <2> HIDE DEF g1, m
    <2> QED BY <1>1, <1>2, LeftSet
  <1>4. g \in RuleRow /\ g.left = m
    <2> HIDE DEF g2, m, b
    <2> QED BY <1>1, <1>3, EnabledSet
  <1>5. Consumed(row) = g
    BY <1>2, <1>3 DEF Consumed
  <1>6. row.left \in Nat \union {Unlimited} /\ Unlimited \notin Nat
    BY PipelineAssumption DEF RuleRow
  <1> HIDE DEF g
  <1> QED BY <1>4, <1>5, <1>6

\* A row the console inserts.
LEMMA InsertedRow ==
    ASSUME NEW f \in Forms
    PROVE  Inserted(f) \in RuleRow /\ Inserted(f).left = f.left
           /\ f.left \in (Nat \ {0}) \union {Unlimited}
  <1>1. f \in RuleForms
    BY PipelineAssumption
  <1> QED BY <1>1 DEF RuleForms, RuleRow, Inserted, Actions

\* A row the console updates.
LEMMA UpdatedRow ==
    ASSUME NEW row \in RuleRow, NEW f \in Forms
    PROVE  Updated(row, f) \in RuleRow /\ Updated(row, f).left = f.left
  <1>1. f \in RuleForms
    BY PipelineAssumption
  <1> QED BY <1>1 DEF RuleForms, RuleRow, Updated, Actions

\* A call's step keeps the tables in shape.
LEMMA CallShaped ==
    ASSUME Shaped, NEW r \in Requests, pc[r] # "new" => loc[r].req \in Arrivals, Only(r), Moves(r)
    PROVE  Shaped'
  <1>1. /\ nextRule' \in Nat \ {0} /\ allow' \in [Stands -> SUBSET Prefix]
        /\ pc' \in [Requests -> Steps] /\ loc' \in [Requests -> Held]
        /\ now' \in Nat /\ edits' \in Nat /\ failures' \in Nat /\ granted' \in [RuleIds -> Nat]
    BY DEF Only, Shaped
  <1>2. rules' \in [RuleIds -> RuleRow \union {NoRule}]
    <2>1. rules' = rules \/ Consuming(r) \/ Counting(r)
      BY DEF Moves, Arriving, Deciding, Dismissing, Applying, Replaying, Missing, Refusing,
             Working, Remembering, Recording, tables
    <2>2. CASE rules' = rules
      BY <2>2 DEF Shaped
    <2>3. CASE Consuming(r)
      <3>1. loc[r].rule \in RuleIds => Consumed(rules[loc[r].rule]) \in RuleRow
        BY <2>3, ConsumedRow DEF Consuming, Shaped
      <3> QED BY <2>3, <3>1 DEF Consuming, Shaped
    <2>4. CASE Counting(r)
      <3>1. rules[loc[r].rule] # NoRule /\ loc[r].rule \in RuleIds
            => Counted(rules[loc[r].rule]) \in RuleRow
        BY CountedRow DEF Shaped
      <3> QED BY <2>4, <3>1 DEF Counting, Shaped
    <2> QED BY <2>1, <2>2, <2>3, <2>4
  <1>3. calls' \in [Keys -> CallRow \union {NoCall}]
    <2>1. calls' = calls \/ Remembering(r)
      BY DEF Moves, Arriving, Deciding, Dismissing, Consuming, Applying, Replaying, Missing, Refusing,
             Working, Recording, tables
    <2>2. CASE Remembering(r)
      <3> DEFINE q == loc[r].req
                 row == [body |-> q.body, answer |-> Jsonb(loc[r].answer), at |-> now]
      <3>1. q \in Arrivals
        BY <2>2 DEF Remembering
      <3>2. row \in CallRow
        <4>1. Jsonb(loc[r].answer) \in Answers
          BY JsonbIs DEF Shaped, Held
        <4> QED BY <3>1, <4>1, PipelineAssumption DEF CallRow, ArrivalOK, Shaped
      <3>3. CallKey(q) \in Keys
        BY <3>1 DEF Keys
      <3>4. Remembered(calls[CallKey(q)], q, loc[r].answer) \in CallRow \union {NoCall}
        BY <3>2, <3>3 DEF Remembered, Shaped
      <3> HIDE DEF row
      <3> QED BY <2>2, <3>3, <3>4 DEF Remembering, Shaped
    <2> QED BY <2>1, <2>2 DEF Shaped
  <1>4. log' \in [Requests -> EntryRow \union {NoEntry}]
    <2>1. log' = log \/ log' = [log EXCEPT ![r] = Entry(r)]
      BY DEF Moves, Arriving, Deciding, Dismissing, Consuming, Applying, Replaying, Missing, Refusing,
             Working, Remembering, Recording, tables, Shaped
    <2>2. Entry(r) \in EntryRow
      <3>1. loc[r].rule \in RuleIds \union {0}
            /\ loc[r].answer.kind \in {"none", "refusal", "status", "fault", "broken", "dropped",
                                       "result", "lost"}
        BY DEF Shaped, Held, Answers
      <3> QED BY <3>1 DEF Entry, EntryRow
    <2> QED BY <2>1, <2>2 DEF Shaped
  <1> QED BY <1>1, <1>2, <1>3, <1>4 DEF Shaped

-----------------------------------------------------------------------------
(* Where a call stands, by the step it runs next.                              *)
Placed(r) ==
    /\ pc[r] = "new" => loc[r] = Fresh
    /\ pc[r] # "new" => loc[r].req \in Arrivals
    /\ pc[r] = "rules" => loc[r].rule = 0
    /\ pc[r] = "remember" => /\ Window > 0 /\ loc[r].req.method \in Listed
                            /\ loc[r].req.id # NoId /\ loc[r].works = 1
    /\ loc[r].works \in 0..1 /\ (loc[r].works = 1 => ~loc[r].unread)
    /\ loc[r].rule < nextRule
    /\ loc[r].asked <= now /\ loc[r].kept <= now
    /\ Window = 0 => loc[r].kept = 0
    /\ loc[r].before \subseteq Finished
    /\ log[r] # NoEntry => pc[r] = "done"

Base ==
    /\ Shaped
    /\ \A i \in RuleIds : rules[i] # NoRule => i < nextRule
    /\ \A k \in Keys : calls[k] # NoCall => calls[k].at <= now
    /\ \A r \in Requests : Placed(r)

\* What a call holds before it arrives.
LEMMA FreshIs ==
    /\ Fresh \in Held /\ Fresh.req = NoCall /\ Fresh.rule = 0 /\ Fresh.act = "none"
    /\ Fresh.works = 0 /\ Fresh.kept = 0 /\ Fresh.asked = 0 /\ Fresh.before = {}
    /\ Fresh.answer.by = {} /\ Fresh.seen = 0
  BY AnswersAre DEF Fresh, Held, Silence, Answer

\* Initially every row and every call is in its place (schema, main.run).
LEMMA InitBase == Init => Base
  <1> SUFFICES ASSUME Init PROVE Base
    OBVIOUS
  <1>1. /\ allow \in [Stands -> SUBSET Prefix] /\ calls = [k \in Keys |-> NoCall]
        /\ log = [r \in Requests |-> NoEntry] /\ pc = [r \in Requests |-> "new"]
        /\ loc = [r \in Requests |-> Fresh] /\ now = 0 /\ edits = 0 /\ failures = 0
        /\ nextRule = Len(Seeded) + 1
    BY PipelineAssumption DEF Init
  <1>2. Len(Seeded) \in Nat /\ DOMAIN Seeded = 1..Len(Seeded)
        /\ \A i \in DOMAIN Seeded : Seeded[i] \in RuleRow
    BY PipelineAssumption
  <1>3. rules = [i \in RuleIds |-> IF i \in DOMAIN Seeded THEN Seeded[i] ELSE NoRule]
    BY DEF Init
  <1>4. granted \in [RuleIds -> Nat]
    <2>1. granted = [i \in RuleIds |-> IF i \in DOMAIN Seeded /\ Seeded[i].left # Unlimited
                                      THEN Seeded[i].left ELSE 0]
      BY DEF Init
    <2>2. \A i \in DOMAIN Seeded : Seeded[i].left \in Nat \union {Unlimited}
      BY <1>2 DEF RuleRow
    <2> QED BY <2>1, <2>2
  <1>5. Shaped
    BY <1>1, <1>2, <1>3, <1>4, FreshIs DEF Shaped, Steps
  <1>6. \A i \in RuleIds : rules[i] # NoRule => i < nextRule
    BY <1>1, <1>2, <1>3
  <1>7. \A k \in Keys : calls[k] = NoCall
    BY <1>1
  <1>8. \A r \in Requests : Placed(r)
    BY <1>1, <1>2, FreshIs DEF Placed
  <1> QED BY <1>5, <1>6, <1>7, <1>8 DEF Base

\* The tables a call's step writes: a row that is there stays, one that is not stays away.
LEMMA TablesMove ==
    ASSUME Base, NEW r \in Requests, Only(r), Moves(r)
    PROVE  /\ \A i \in RuleIds : rules[i] = NoRule => rules'[i] = NoRule
           /\ rules' = rules \/ Consuming(r) \/ Applying(r)
           /\ calls' = calls \/ Remembering(r)
           /\ \A s \in Requests \ {r} : log'[s] = log[s]
           /\ log' = log \/ Recording(r)
  <1>1. rules' = rules \/ Consuming(r) \/ Applying(r)
    BY DEF Moves, Arriving, Deciding, Dismissing, Replaying, Missing, Refusing,
           Working, Remembering, Recording, tables
  <1>2. \A i \in RuleIds : rules[i] = NoRule => rules'[i] = NoRule
    BY <1>1 DEF Consuming, Applying, Counting, Base, Shaped
  <1>3. calls' = calls \/ Remembering(r)
    BY DEF Moves, Arriving, Deciding, Dismissing, Consuming, Applying, Replaying, Missing, Refusing,
           Working, Recording, tables
  <1>4. log' = log \/ Recording(r)
    BY DEF Moves, Arriving, Deciding, Dismissing, Consuming, Applying, Replaying, Missing, Refusing,
           Working, Remembering, tables
  <1>5. \A s \in Requests \ {r} : log'[s] = log[s]
    BY <1>4 DEF Recording, Base, Shaped
  <1> QED BY <1>1, <1>2, <1>3, <1>4, <1>5

\* No step of a call ends where it began, or begins after its end.
LEMMA MovesOn ==
    ASSUME Base, NEW r \in Requests, Only(r), Moves(r)
    PROVE  pc[r] # "done" /\ pc'[r] # "new"
  BY DEF Moves, Arriving, Deciding, Dismissing, Consuming, Applying, Replaying, Missing, Refusing,
         Working, Remembering, Recording, Delivering

\* A call's step leaves the call in its place.
LEMMA PlacedMoves ==
    ASSUME Base, NEW r \in Requests, Only(r), Moves(r)
    PROVE  Placed(r)'
  <1>1. Placed(r) /\ now \in Nat /\ nextRule \in Nat \ {0} /\ Shaped /\ loc[r] \in Held /\ loc'[r] \in Held
    BY DEF Base, Shaped, Only
  <1>2. now' = now /\ nextRule' = nextRule /\ Window \in Nat
    BY PipelineAssumption DEF Only
  <1>3. Finished \subseteq Finished'
    BY MovesOn DEF Finished, Only
  <1>4. log'[r] = log[r] \/ pc'[r] = "done"
    BY TablesMove DEF Recording
  <1>5. log'[r] # NoEntry => pc'[r] = "done"
    BY <1>1, <1>4, MovesOn DEF Placed
  <1>6. ASSUME SameCall(loc'[r], loc[r]), pc[r] # "new"
        PROVE  /\ loc'[r].req = loc[r].req /\ loc'[r].req \in Arrivals
               /\ loc'[r].before \subseteq Finished'
    BY <1>1, <1>3, <1>6 DEF Placed, SameCall
  <1>7. ASSUME SameWork(loc'[r], loc[r]), loc'[r].unread => loc[r].unread
        PROVE  /\ loc'[r].works \in 0..1 /\ (loc'[r].works = 1 => ~loc'[r].unread)
               /\ loc'[r].kept <= now /\ (Window = 0 => loc'[r].kept = 0)
    BY <1>1, <1>7 DEF Placed, SameWork
  <1>8. SameRule(loc'[r], loc[r]) => loc'[r].rule < nextRule
    BY <1>1 DEF Placed, SameRule
  <1>9. loc'[r].asked = loc[r].asked => loc'[r].asked <= now
    BY <1>1 DEF Placed
  <1>10. \A a : Delivering(r, a) => pc'[r] \in {"serve", "record"}
    BY DEF Delivering
  <1>20. pc'[r] # "new"
    BY MovesOn
  <1>11. CASE Arriving(r)
    BY <1>2, <1>3, <1>5, <1>11, <1>1, <1>20, FreshIs DEF Arriving, Placed, SameRule, SameWork
  <1>12. CASE Deciding(r)
    <2>1. loc'[r].rule < nextRule
      BY <1>1, <1>12 DEF Deciding, Base
    <2>2. pc'[r] \in {"hit", "consume"} /\ pc[r] # "new"
      BY <1>12 DEF Deciding
    <2> QED BY <1>2, <1>5, <1>6, <1>7, <1>9, <1>12, <1>20, <2>1, <2>2 DEF Deciding, Placed, SameBody
  <1>13. CASE Dismissing(r)
    BY <1>1, <1>2, <1>5, <1>6, <1>7, <1>9, <1>13, <1>20 DEF Dismissing, Placed, SameBody
  <1>14. CASE Consuming(r)
    BY <1>1, <1>2, <1>3, <1>5, <1>14, <1>20 DEF Consuming, Placed
  <1>15. CASE Applying(r)
    BY <1>1, <1>2, <1>5, <1>6, <1>7, <1>8, <1>9, <1>15, <1>20 DEF Applying, Placed
  <1>16. CASE Replaying(r)
    BY <1>1, <1>2, <1>5, <1>6, <1>7, <1>8, <1>9, <1>10, <1>16, <1>20 DEF Replaying, Placed
  <1>17. CASE Missing(r)
    <2>1. loc'[r].asked <= now
      BY <1>1, <1>17 DEF Missing, Placed
    <2> QED BY <1>1, <1>2, <1>5, <1>6, <1>7, <1>8, <1>17, <1>20, <2>1 DEF Missing, Placed, SameBody
  <1>18. CASE Refusing(r)
    BY <1>1, <1>2, <1>5, <1>6, <1>7, <1>8, <1>9, <1>10, <1>18, <1>20 DEF Refusing, Placed
  <1>19. CASE Working(r)
    <2>1. loc[r].works = 0 /\ loc'[r].works = 1 /\ ~loc'[r].unread /\ pc[r] # "new"
      BY <1>1, <1>19 DEF Working, Placed
    <2>2. pc'[r] = "remember" => Keyed(r)
      BY <1>10, <1>19 DEF Working
    <2>3. pc'[r] \in {"remember", "serve", "record"}
      BY <1>10, <1>19 DEF Working
    <2>4. /\ loc'[r].kept = loc[r].kept /\ loc'[r].asked = loc[r].asked
          /\ SameCall(loc'[r], loc[r]) /\ SameRule(loc'[r], loc[r])
      BY <1>19 DEF Working
    <2>5. pc'[r] = "remember" => /\ Window > 0 /\ loc[r].req.method \in Listed
                                /\ loc[r].req.id # NoId
      BY <2>2 DEF Keyed
    <2> QED BY <1>1, <1>2, <1>5, <1>6, <1>8, <1>20, <2>1, <2>3, <2>4, <2>5 DEF Placed
  <1>21. CASE Remembering(r)
    <2>1. /\ pc[r] # "new" /\ pc'[r] \in {"serve", "record"} /\ Window > 0
      BY <1>1, <1>10, <1>21 DEF Remembering, Placed
    <2> QED BY <1>1, <1>2, <1>5, <1>6, <1>8, <1>9, <1>20, <1>21, <2>1 DEF Remembering, Placed
  <1>22. CASE Recording(r)
    BY <1>1, <1>2, <1>3, <1>5, <1>20, <1>22 DEF Recording, Placed
  <1> QED
    BY <1>11, <1>12, <1>13, <1>14, <1>15, <1>16, <1>17, <1>18, <1>19, <1>21, <1>22 DEF Moves

\* A call's step keeps the base invariant.
LEMMA CallBase ==
    ASSUME Base, NEW r \in Requests, Only(r), Moves(r) PROVE Base'
  <1>1. Shaped'
    BY CallShaped DEF Base, Placed
  <1>2. \A i \in RuleIds : rules'[i] # NoRule => i < nextRule'
    BY TablesMove DEF Base, Only
  <1>3. \A k \in Keys : calls'[k] # NoCall => calls'[k].at <= now'
    <2>1. now' = now /\ now \in Nat
      BY DEF Only, Base, Shaped
    <2>2. CASE Remembering(r)
      BY <2>1, <2>2 DEF Remembering, Remembered, Base, Shaped
    <2> QED BY <2>1, <2>2, TablesMove DEF Base
  <1>4. ASSUME NEW s \in Requests, s # r PROVE Placed(s)'
    <2>1. pc'[s] = pc[s] /\ loc'[s] = loc[s] /\ log'[s] = log[s] /\ now' = now /\ nextRule' = nextRule
      BY <1>4, TablesMove DEF Only
    <2>2. Finished \subseteq Finished'
      BY MovesOn DEF Finished, Only
    <2> QED BY <2>1, <2>2 DEF Placed, Base
  <1> QED BY <1>1, <1>2, <1>3, <1>4, PlacedMoves DEF Base

\* The end of the process: what the calls in flight hold, and nothing else.
LEMMA CrashDoes ==
    ASSUME Shaped, Crash
    PROVE  /\ UNCHANGED <<rules, nextRule, allow, calls, log, now, edits, granted>>
           /\ failures' \in Nat \ {0}
           /\ pc' \in [Requests -> Steps] /\ loc' \in [Requests -> Held]
           /\ \A r \in Requests \ InFlight : pc'[r] = pc[r] /\ loc'[r] = loc[r]
           /\ \A r \in InFlight :
                 /\ pc'[r] = "done" /\ SameCall(loc'[r], loc[r]) /\ SameWork(loc'[r], loc[r])
                 /\ loc'[r].unread = loc[r].unread /\ loc'[r].asked = loc[r].asked
                 /\ loc'[r].answer.by = {}
                 /\ loc'[r].rule = IF pc[r] = "consume" THEN 0 ELSE loc[r].rule
  <1>1. UNCHANGED <<rules, nextRule, allow, calls, log, now, edits, granted>>
    BY DEF Crash, tables, Quiet
  <1>2. failures' \in Nat \ {0}
    <2>1. failures' = failures + 1 /\ failures \in Nat
      BY DEF Crash, Broken, Shaped
    <2> QED BY <2>1
  <1>3. /\ pc'  = [r \in Requests |-> IF r \in InFlight THEN "done" ELSE pc[r]]
        /\ loc' = [r \in Requests |-> IF r \in InFlight
                        THEN [loc[r] EXCEPT !.answer = Answer("lost", {}),
                                            !.rule = IF pc[r] = "consume" THEN 0 ELSE @]
                        ELSE loc[r]]
    BY DEF Crash
  <1>4. pc' \in [Requests -> Steps]
    BY <1>3 DEF Shaped, Steps
  <1>5. ASSUME NEW r \in InFlight
        PROVE  LET g == loc'[r]
                   h == loc[r]
               IN  /\ g \in Held /\ SameCall(g, h) /\ SameWork(g, h) /\ g.unread = h.unread
                   /\ g.asked = h.asked /\ g.answer.by = {}
                   /\ g.rule = IF pc[r] = "consume" THEN 0 ELSE h.rule
    <2> DEFINE h == loc[r]
               a == Answer("lost", {})
               i == IF pc[r] = "consume" THEN 0 ELSE h.rule
               g1 == [h EXCEPT !.answer = a]
               g == [g1 EXCEPT !.rule = i]
    <2>1. r \in Requests /\ h \in Held
      BY DEF InFlight, Shaped
    <2>2. a \in Answers /\ a.by = {} /\ i \in RuleIds \union {0}
      BY <2>1, AnswersAre DEF Answer, Held
    <2> HIDE DEF a
    <2>3. /\ g1 \in Held /\ g1.answer = a /\ SameCall(g1, h) /\ SameRule(g1, h)
          /\ SameWork(g1, h) /\ SameBody(g1, h) /\ g1.asked = h.asked
      BY <2>1, <2>2, AnswerSet
    <2>4. loc'[r] = g
      BY <1>3, <2>1, <2>3 DEF a, SameRule
    <2> HIDE DEF g1, i, h
    <2>5. /\ g \in Held /\ g.rule = i /\ SameCall(g, g1) /\ SameWork(g, g1)
          /\ SameBody(g, g1) /\ g.answer = g1.answer /\ g.asked = g1.asked
      BY <2>2, <2>3, RuleSet
    <2> HIDE DEF g
    <2>6. /\ SameCall(g, h) /\ SameWork(g, h) /\ g.unread = h.unread
          /\ g.asked = h.asked /\ g.answer.by = {}
      BY <2>2, <2>3, <2>5 DEF SameCall, SameWork, SameBody
    <2>7. g \in Held /\ g.rule = IF pc[r] = "consume" THEN 0 ELSE loc[r].rule
      BY <2>5 DEF i, h
    <2> QED BY <2>4, <2>6, <2>7 DEF h
  <1>6. \A r \in Requests \ InFlight : pc'[r] = pc[r] /\ loc'[r] = loc[r]
    BY <1>3
  <1>7. loc' \in [Requests -> Held]
    <2>1. \A r \in Requests : loc'[r] \in Held
      BY <1>5, <1>6 DEF Shaped
    <2>2. loc' = [r \in Requests |-> loc'[r]]
      BY <1>3
    <2> QED BY <2>1, <2>2
  <1>8. \A r \in InFlight : pc'[r] = "done"
    BY <1>3 DEF InFlight
  <1> QED BY <1>1, <1>2, <1>4, <1>5, <1>6, <1>7, <1>8

\* So does the end of the process.
LEMMA CrashBase ==
    ASSUME Base, Crash PROVE Base'
  <1>1. Shaped'
    BY CrashDoes DEF Base, Shaped
  <1>2. ASSUME NEW r \in Requests PROVE Placed(r)'
    <2>1. /\ now' = now /\ nextRule' = nextRule /\ log'[r] = log[r] /\ Placed(r)
          /\ nextRule \in Nat \ {0}
      BY CrashDoes DEF Base, Shaped
    <2>2. Finished \subseteq Finished'
      BY CrashDoes DEF Base, Finished, InFlight
    <2>3. CASE r \in InFlight
      <3>1. /\ pc'[r] = "done" /\ SameCall(loc'[r], loc[r]) /\ SameWork(loc'[r], loc[r])
            /\ loc'[r].unread = loc[r].unread /\ loc'[r].asked = loc[r].asked
            /\ loc'[r].rule = IF pc[r] = "consume" THEN 0 ELSE loc[r].rule
        BY <2>3, CrashDoes DEF Base
      <3>2. pc[r] # "new"
        BY <2>3 DEF InFlight
      <3> QED BY <2>1, <2>2, <3>1, <3>2 DEF Placed, SameCall, SameWork
    <2>4. CASE r \notin InFlight
      <3>1. pc'[r] = pc[r] /\ loc'[r] = loc[r]
        BY <2>4, CrashDoes DEF Base
      <3> QED BY <2>1, <2>2, <3>1 DEF Placed
    <2> QED BY <2>3, <2>4
  <1>3. UNCHANGED <<rules, nextRule, calls, now>>
    BY CrashDoes DEF Base
  <1> QED BY <1>1, <1>2, <1>3 DEF Base

-----------------------------------------------------------------------------
(* Powers of two and the bits of an address.                                   *)
LEMMA LeastExists ==
    ASSUME NEW S \in SUBSET Nat, NEW n \in S
    PROVE  \E m \in S : \A k \in S : ~(k < m)
  <1>1. PICK m \in S : \A k \in S : ~(<<k, m>> \in OpToRel(<, Nat))
    BY NatLessThanWellFounded, WFMin
  <1> QED BY <1>1 DEF OpToRel

\* f is a table of the first powers, up to the n-th.
PowersTo(f, n) ==
    f \in [0..n -> Nat \ {0}] /\ f[0] = 1 /\ \A k \in 1..n : f[k] = 2 * f[k - 1]

\* The powers up to n exist, for every n: the least n without them is impossible.
LEMMA PowersExist ==
    ASSUME NEW n \in Nat PROVE \E f : PowersTo(f, n)
  <1> DEFINE Bad == {k \in Nat : ~(\E f : PowersTo(f, k))}
  <1> SUFFICES ASSUME n \in Bad PROVE FALSE
    OBVIOUS
  <1>1. PICK m \in Bad : \A k \in Bad : ~(k < m)
    BY LeastExists
  <1>2. PowersTo([k \in 0..0 |-> 1], 0)
    BY DEF PowersTo
  <1>3. m \in Nat \ {0} /\ m - 1 \in Nat
    BY <1>2
  <1>4. PICK f : PowersTo(f, m - 1)
    BY <1>1, <1>3
  <1> DEFINE g == [k \in 0..m |-> IF k = m THEN 2 * f[m - 1] ELSE f[k]]
  <1>5. \A k \in 0..(m - 1) : f[k] \in Nat \ {0}
    BY <1>4 DEF PowersTo
  <1>6. g \in [0..m -> Nat \ {0}]
    BY <1>3, <1>5
  <1>8. f[0] = 1 /\ \A k \in 1..(m - 1) : f[k] = 2 * f[k - 1]
    BY <1>4 DEF PowersTo
  <1>9. ASSUME NEW k \in 1..m PROVE g[k] = 2 * g[k - 1]
    <2>1. k - 1 \in 0..m /\ k - 1 # m /\ g[k - 1] = f[k - 1]
      BY <1>3
    <2>2. CASE k = m
      BY <2>1, <2>2
    <2>3. CASE k # m
      BY <1>3, <1>8, <2>1, <2>3
    <2> QED BY <2>2, <2>3
  <1>7. g[0] = 1 /\ \A k \in 1..m : g[k] = 2 * g[k - 1]
    BY <1>3, <1>8, <1>9
  <1> QED BY <1>6, <1>7 DEF PowersTo

\* They are unique.
LEMMA PowersAgree ==
    ASSUME NEW n \in Nat, NEW m \in Nat, NEW f, NEW g, PowersTo(f, n), PowersTo(g, m),
           NEW k \in Nat, k <= n, k <= m
    PROVE  f[k] = g[k]
  <1> DEFINE Bad == {j \in Nat : j <= n /\ j <= m /\ f[j] # g[j]}
  <1> SUFFICES ASSUME k \in Bad PROVE FALSE
    OBVIOUS
  <1>1. PICK j \in Bad : \A i \in Bad : ~(i < j)
    BY LeastExists
  <1>2. j # 0
    BY DEF PowersTo
  <1>3. j - 1 \in Nat /\ f[j - 1] = g[j - 1]
    BY <1>1, <1>2
  <1> QED BY <1>2, <1>3 DEF PowersTo

\* The recursion of Pow2 has a solution, so Pow2 is one.
LEMMA PowIs == \A n \in Nat : Pow2[n] = IF n = 0 THEN 1 ELSE 2 * Pow2[n - 1]
  <1> DEFINE T(n) == CHOOSE f : PowersTo(f, n)
             F == [n \in Nat |-> T(n)[n]]
  <1>1. \A n \in Nat : PowersTo(T(n), n)
    BY PowersExist
  <1>2. ASSUME NEW n \in Nat PROVE F[n] = IF n = 0 THEN 1 ELSE 2 * F[n - 1]
    <2>1. CASE n = 0
      BY <1>1, <2>1 DEF PowersTo
    <2>2. CASE n # 0
      <3>1. n - 1 \in Nat /\ n - 1 <= n
        BY <2>2
      <3>2. T(n)[n - 1] = T(n - 1)[n - 1]
        <4>1. PowersTo(T(n), n) /\ PowersTo(T(n - 1), n - 1)
          BY <1>1, <3>1
        <4> HIDE DEF T
        <4> QED BY <3>1, <4>1, PowersAgree
      <3>3. T(n)[n] = 2 * T(n)[n - 1]
        <4>1. PowersTo(T(n), n) /\ n \in 1..n
          BY <1>1, <2>2
        <4> HIDE DEF T
        <4> QED BY <4>1 DEF PowersTo
      <3> HIDE DEF T
      <3> QED BY <2>2, <3>1, <3>2, <3>3
    <2> QED BY <2>1, <2>2
  <1>3. F = [n \in Nat |-> IF n = 0 THEN 1 ELSE 2 * F[n - 1]]
    <2>1. F = [n \in Nat |-> F[n]]
      OBVIOUS
    <2> HIDE DEF F
    <2> QED BY <1>2, <2>1
  <1>4. \E f : f = [n \in Nat |-> IF n = 0 THEN 1 ELSE 2 * f[n - 1]]
    BY <1>3
  <1>5. Pow2 = [n \in Nat |-> IF n = 0 THEN 1 ELSE 2 * Pow2[n - 1]]
    BY <1>4 DEF Pow2
  <1> QED BY <1>5

\* Powers are at least one.
LEMMA PowPositive ==
    ASSUME NEW n \in Nat PROVE Pow2[n] \in Nat \ {0}
  <1> DEFINE Bad == {k \in Nat : Pow2[k] \notin Nat \ {0}}
  <1> SUFFICES ASSUME n \in Bad PROVE FALSE
    OBVIOUS
  <1>1. PICK m \in Bad : \A k \in Bad : ~(k < m)
    BY LeastExists
  <1>2. m # 0 /\ m \in Nat
    BY PowIs
  <1>3. m - 1 \in Nat /\ Pow2[m - 1] \in Nat \ {0}
    BY <1>1, <1>2
  <1>4. Pow2[m] = 2 * Pow2[m - 1]
    BY <1>2, PowIs
  <1> QED BY <1>3, <1>4

\* Powers of a sum are products.
LEMMA PowSum ==
    ASSUME NEW m \in Nat, NEW n \in Nat PROVE Pow2[m + n] = Pow2[m] * Pow2[n]
  <1> DEFINE Bad == {k \in Nat : Pow2[m + k] # Pow2[m] * Pow2[k]}
  <1> SUFFICES ASSUME n \in Bad PROVE FALSE
    OBVIOUS
  <1>1. PICK k \in Bad : \A i \in Bad : ~(i < k)
    BY LeastExists
  <1>2. k # 0 /\ k \in Nat
    <2>1. Pow2[0] = 1 /\ Pow2[m] \in Nat
      BY PowIs, PowPositive
    <2> QED BY <2>1
  <1>3. k - 1 \in Nat /\ Pow2[m + (k - 1)] = Pow2[m] * Pow2[k - 1]
    BY <1>1, <1>2
  <1>4. Pow2[k] = 2 * Pow2[k - 1]
    BY <1>2, PowIs
  <1>5. Pow2[m + k] = 2 * Pow2[m + (k - 1)]
    <2>1. m + k \in Nat /\ m + k # 0 /\ (m + k) - 1 = m + (k - 1)
      BY <1>2
    <2> QED BY <2>1, PowIs
  <1>6. Pow2[m] \in Nat /\ Pow2[k - 1] \in Nat
    BY <1>3, PowPositive
  <1>7. \A a, b \in Nat : 2 * (a * b) = a * (2 * b)
    OBVIOUS
  <1>8. Pow2[m + k] = Pow2[m] * Pow2[k]
    BY <1>3, <1>4, <1>5, <1>6, <1>7
  <1> QED BY <1>8

\* What ParsePrefix makes is a prefix.
LEMMA NetworkIsPrefix ==
    ASSUME NEW p \in Prefix PROVE ParsePrefix(p) \in Prefix
  <1>1. p.net \in 0..(Pow2[Width] - 1) /\ p.len \in 0..Width /\ Width - p.len \in Nat
    BY AccessAssumption DEF Prefix, Address
  <1> DEFINE s == Size(p)
             n == (p.net \div s) * s
  <1>2. s \in Nat \ {0}
    BY <1>1, PowPositive DEF Size
  <1>3. Pow2[Width] \in Nat
    BY AccessAssumption, PowPositive
  <1> HIDE DEF s
  <1>4. \A a \in Nat : (a \div s) * s \in Nat /\ (a \div s) * s <= a
    BY <1>2
  <1>5. n \in Address
    BY <1>1, <1>3, <1>4 DEF Address
  <1>6. ParsePrefix(p) = [p EXCEPT !.net = n]
    BY DEF ParsePrefix, s
  <1> HIDE DEF n
  <1> QED BY <1>5, <1>6 DEF Prefix

\* Two addresses of one network agree on the network's bits.
LEMMA SameNetworkSameBits ==
    ASSUME NEW p \in Prefix, NEW a \in Address, Contains(p, a)
    PROVE  HighBits(a, p.len) = HighBits(p.net, p.len)
  <1>1. /\ a \in Nat /\ p.net \in Nat /\ p.len \in 0..Width /\ Width \in Nat
        /\ Width - p.len \in Nat
    BY AccessAssumption DEF Prefix, Address
  <1> DEFINE s == Pow2[Width - p.len]
  <1>2. s \in Nat \ {0} /\ a \div s = p.net \div s
    BY <1>1, PowPositive DEF Contains, Size
  <1>3. ASSUME NEW k \in 1..p.len
        PROVE  a \div Pow2[Width - k] = p.net \div Pow2[Width - k]
    <2> DEFINE t == Pow2[p.len - k]
    <2>1. p.len - k \in Nat /\ (Width - p.len) + (p.len - k) = Width - k
      BY <1>1
    <2>2. t \in Nat \ {0} /\ Pow2[Width - k] = s * t
      BY <1>1, <2>1, PowPositive, PowSum
    <2> HIDE DEF s, t
    <2>3. \A b \in Nat : b \div (s * t) = (b \div s) \div t
      BY <1>2, <2>2
    <2> QED BY <1>1, <1>2, <2>2, <2>3
  <1> QED BY <1>3 DEF HighBits

-----------------------------------------------------------------------------
(* The console.                                                                *)
LEMMA UnmarkedIs ==
    ASSUME Shaped, NEW gone
    PROVE  /\ Unmarked(gone) \in [Requests -> EntryRow \union {NoEntry}]
           /\ \A r \in Requests :
                 /\ Unmarked(gone)[r] = NoEntry <=> log[r] = NoEntry
                 /\ log[r] # NoEntry => Unmarked(gone)[r].rule =
                                           IF log[r].rule \in gone THEN 0 ELSE log[r].rule
  <1>1. ASSUME NEW e \in EntryRow
        PROVE  LET d == [e EXCEPT !.rule = 0] IN d \in EntryRow /\ d # NoEntry /\ d.rule = 0
    BY PipelineAssumption DEF EntryRow
  <1>2. \A r \in Requests : log[r] # NoEntry => log[r] \in EntryRow
    BY DEF Shaped
  <1>3. ASSUME NEW r \in Requests
        PROVE  /\ Unmarked(gone)[r] \in EntryRow \union {NoEntry}
               /\ Unmarked(gone)[r] = NoEntry <=> log[r] = NoEntry
               /\ log[r] # NoEntry => Unmarked(gone)[r].rule =
                                         IF log[r].rule \in gone THEN 0 ELSE log[r].rule
    BY <1>1, <1>2 DEF Unmarked
  <1>4. Unmarked(gone) \in [Requests -> EntryRow \union {NoEntry}]
    BY <1>3 DEF Unmarked
  <1> QED BY <1>3, <1>4

\* What an edit does to the rules: a row is inserted in place of others, changed, or goes.
RulesEdited ==
    \/ UNCHANGED <<rules, nextRule, log, granted>>
    \/ \E f \in Forms : CreateRule(f)
    \/ \E i \in RuleIds :
          /\ rules[i] # NoRule /\ UNCHANGED nextRule
          /\ \/ \E f \in Forms : UpdateRule(i, f)
             \/ ToggleRule(i)
             \/ DeleteRule(i)

\* What an edit of the console does.
LEMMA ConsoleDoes ==
    ASSUME Shaped, Console
    PROVE  /\ UNCHANGED <<pc, loc, now, failures, calls>> /\ edits' \in Nat
           /\ allow' \in [Stands -> SUBSET Prefix] /\ RulesEdited
  <1>1. ASSUME NEW f \in Forms, CreateRule(f)
        PROVE  /\ UNCHANGED <<pc, loc, now, failures, calls, allow>> /\ edits' \in Nat
               /\ RulesEdited
    <2>1. UNCHANGED <<pc, loc, now, failures, calls, allow>> /\ edits' \in Nat
      BY <1>1 DEF CreateRule, Edit, Shaped
    <2> QED BY <1>1, <2>1 DEF RulesEdited
  <1>2. ASSUME NEW i \in RuleIds, (\E f \in Forms : UpdateRule(i, f)) \/ ToggleRule(i) \/ DeleteRule(i)
        PROVE  /\ UNCHANGED <<pc, loc, now, failures, calls, allow>> /\ edits' \in Nat
               /\ RulesEdited
    <2>1. /\ UNCHANGED <<pc, loc, now, failures, calls, allow>> /\ edits' \in Nat
          /\ rules[i] # NoRule /\ UNCHANGED nextRule
      BY <1>2 DEF UpdateRule, ToggleRule, DeleteRule, Edit, Shaped
    <2> QED BY <1>2, <2>1 DEF RulesEdited
  <1>3. ASSUME NEW s \in Stands, NEW p \in Typed, CreateIPRule(s, p)
        PROVE  /\ UNCHANGED <<pc, loc, now, failures, calls>> /\ edits' \in Nat
               /\ allow' \in [Stands -> SUBSET Prefix] /\ RulesEdited
    <2>1. /\ UNCHANGED <<pc, loc, now, failures, calls>> /\ edits' \in Nat
          /\ RulesEdited
      BY <1>3 DEF CreateIPRule, Edit, RulesEdited, Shaped
    <2>2. ParsePrefix(p) \in Prefix
      BY PipelineAssumption, NetworkIsPrefix
    <2> QED BY <1>3, <2>1, <2>2 DEF CreateIPRule, Shaped
  <1>4. ASSUME NEW s \in Stands, NEW p \in allow[s], DeleteIPRule(s, p)
        PROVE  /\ UNCHANGED <<pc, loc, now, failures, calls>> /\ edits' \in Nat
               /\ allow' \in [Stands -> SUBSET Prefix] /\ RulesEdited
    BY <1>4 DEF DeleteIPRule, Edit, RulesEdited, Shaped
  <1> QED BY <1>1, <1>2, <1>3, <1>4 DEF Console, Shaped

\* The number of fired uses is a number.
LEMMA FiredIsCounted ==
    ASSUME NEW i PROVE Fired(i) \in Nat
  <1>1. IsFiniteSet({r \in Requests : loc[r].rule = i /\ pc[r] \notin {"consume", "new"}})
    BY PipelineAssumption, FS_Subset
  <1> QED BY <1>1, FS_CardinalityType DEF Fired

\* The rule table and what goes with it stay in shape, and a row stays below the sequence.
LEMMA RulesEditedBase ==
    ASSUME Base, RulesEdited, pc' = pc
    PROVE  /\ rules' \in [RuleIds -> RuleRow \union {NoRule}] /\ nextRule' \in Nat \ {0}
           /\ log' \in [Requests -> EntryRow \union {NoEntry}]
           /\ granted' \in [RuleIds -> Nat] /\ nextRule <= nextRule'
           /\ \A i \in RuleIds : rules'[i] # NoRule => i < nextRule'
           /\ \A r \in Requests : log'[r] # NoEntry => log[r] # NoEntry
  <1>1. Shaped /\ \A i \in RuleIds : rules[i] # NoRule => i < nextRule
    BY DEF Base
  <1>2. CASE UNCHANGED <<rules, nextRule, log, granted>>
    BY <1>1, <1>2 DEF Shaped
  <1>3. ASSUME NEW f \in Forms, CreateRule(f)
        PROVE  /\ rules' \in [RuleIds -> RuleRow \union {NoRule}] /\ nextRule' \in Nat \ {0}
               /\ log' \in [Requests -> EntryRow \union {NoEntry}]
               /\ granted' \in [RuleIds -> Nat] /\ nextRule <= nextRule'
               /\ \A i \in RuleIds : rules'[i] # NoRule => i < nextRule'
               /\ \A r \in Requests : log'[r] # NoEntry => log[r] # NoEntry
    <2>1. PICK gone : /\ rules' = [i \in RuleIds |-> IF i = nextRule THEN Inserted(f)
                                       ELSE IF i \in gone THEN NoRule ELSE rules[i]]
                      /\ log' = Unmarked(gone) /\ nextRule' = nextRule + 1
                      /\ granted' = [granted EXCEPT ![nextRule] = IF f.left = Unlimited THEN 0 ELSE f.left]
      BY <1>3 DEF CreateRule
    <2>2. Inserted(f) \in RuleRow /\ f.left \in (Nat \ {0}) \union {Unlimited}
      BY InsertedRow
    <2>3. nextRule \in Nat \ {0}
      BY <1>1 DEF Shaped
    <2>4. log' \in [Requests -> EntryRow \union {NoEntry}]
          /\ \A r \in Requests : log'[r] # NoEntry => log[r] # NoEntry
      BY <1>1, <2>1, UnmarkedIs
    <2>5. rules' \in [RuleIds -> RuleRow \union {NoRule}]
      BY <1>1, <2>1, <2>2 DEF Shaped
    <2>6. \A i \in RuleIds : rules'[i] # NoRule => i < nextRule'
      BY <1>1, <2>1, <2>3 DEF RuleIds
    <2>7. granted' \in [RuleIds -> Nat]
      BY <1>1, <2>1, <2>2 DEF Shaped
    <2> QED BY <2>1, <2>3, <2>4, <2>5, <2>6, <2>7
  <1>4. ASSUME NEW i \in RuleIds, NEW f \in Forms, UpdateRule(i, f), nextRule' = nextRule, rules[i] # NoRule
        PROVE  /\ rules' \in [RuleIds -> RuleRow \union {NoRule}] /\ nextRule' \in Nat \ {0}
               /\ log' \in [Requests -> EntryRow \union {NoEntry}]
               /\ granted' \in [RuleIds -> Nat] /\ nextRule <= nextRule'
               /\ \A j \in RuleIds : rules'[j] # NoRule => j < nextRule'
               /\ \A r \in Requests : log'[r] # NoEntry => log[r] # NoEntry
    <2>1. /\ rules' = [rules EXCEPT ![i] = Updated(@, f)] /\ log' = log
          /\ granted' = [granted EXCEPT ![i] = IF f.left = Unlimited THEN 0 ELSE Fired(i) + f.left]
      BY <1>4 DEF UpdateRule
    <2>2. rules[i] \in RuleRow
      BY <1>1, <1>4 DEF Shaped
    <2>3. Updated(rules[i], f) \in RuleRow
      BY <2>2, UpdatedRow
    <2>4. f.left \in (Nat \ {0}) \union {Unlimited} /\ Fired(i) \in Nat
      BY InsertedRow, FiredIsCounted
    <2> QED BY <1>1, <1>4, <2>1, <2>3, <2>4 DEF Shaped
  <1>5. ASSUME NEW i \in RuleIds, ToggleRule(i) \/ DeleteRule(i), nextRule' = nextRule, rules[i] # NoRule
        PROVE  /\ rules' \in [RuleIds -> RuleRow \union {NoRule}] /\ nextRule' \in Nat \ {0}
               /\ log' \in [Requests -> EntryRow \union {NoEntry}]
               /\ granted' \in [RuleIds -> Nat] /\ nextRule <= nextRule'
               /\ \A j \in RuleIds : rules'[j] # NoRule => j < nextRule'
               /\ \A r \in Requests : log'[r] # NoEntry => log[r] # NoEntry
    <2>1. rules[i] \in RuleRow /\ rules[i].enabled \in BOOLEAN
      BY <1>1, <1>5 DEF Shaped, RuleRow
    <2>2. [rules[i] EXCEPT !.enabled = ~@] \in RuleRow
      BY <2>1, EnabledSet
    <2>3. log' = log \/ log' = Unmarked({i})
      BY <1>5 DEF ToggleRule, DeleteRule
    <2>4. log' \in [Requests -> EntryRow \union {NoEntry}]
          /\ \A r \in Requests : log'[r] # NoEntry => log[r] # NoEntry
      BY <1>1, <2>3, UnmarkedIs DEF Shaped
    <2>5. CASE ToggleRule(i)
      <3>1. rules' = [rules EXCEPT ![i] = [rules[i] EXCEPT !.enabled = ~@]] /\ granted' = granted
        BY <2>5 DEF ToggleRule
      <3> QED BY <1>1, <1>5, <2>2, <2>4, <3>1 DEF Shaped
    <2>6. CASE DeleteRule(i)
      <3>1. rules' = [rules EXCEPT ![i] = NoRule] /\ granted' = granted
        BY <2>6 DEF DeleteRule
      <3> QED BY <1>1, <1>5, <2>4, <3>1 DEF Shaped
    <2> QED BY <1>5, <2>5, <2>6
  <1> QED BY <1>2, <1>3, <1>4, <1>5 DEF RulesEdited

\* An edit keeps the base invariant.
LEMMA ConsoleBase ==
    ASSUME Base, Console PROVE Base'
  <1>1. /\ pc' = pc /\ loc' = loc /\ now' = now /\ failures' = failures /\ calls' = calls
        /\ edits' \in Nat /\ allow' \in [Stands -> SUBSET Prefix] /\ RulesEdited
    BY ConsoleDoes DEF Base
  <1>2. /\ rules' \in [RuleIds -> RuleRow \union {NoRule}] /\ nextRule' \in Nat \ {0}
        /\ log' \in [Requests -> EntryRow \union {NoEntry}]
        /\ granted' \in [RuleIds -> Nat] /\ nextRule <= nextRule'
        /\ \A i \in RuleIds : rules'[i] # NoRule => i < nextRule'
        /\ \A r \in Requests : log'[r] # NoEntry => log[r] # NoEntry
    BY <1>1, RulesEditedBase
  <1>3. Shaped'
    BY <1>1, <1>2 DEF Base, Shaped
  <1>4. \A k \in Keys : calls'[k] # NoCall => calls'[k].at <= now'
    BY <1>1 DEF Base
  <1>5. ASSUME NEW r \in Requests PROVE Placed(r)'
    <2>1. Placed(r) /\ loc[r].rule \in Nat /\ nextRule \in Nat
      BY DEF Base, Shaped, Held, RuleIds
    <2>2. Finished' = Finished
      BY <1>1 DEF Finished
    <2> QED BY <1>1, <1>2, <2>1, <2>2 DEF Placed
  <1> QED BY <1>2, <1>3, <1>4, <1>5 DEF Base

\* So does the clock.
LEMMA TickBase ==
    ASSUME Base, Tick PROVE Base'
  <1>1. /\ UNCHANGED <<rules, nextRule, allow, calls, log, pc, loc, edits, failures, granted>>
        /\ now' = now + 1
    BY DEF Tick, tables
  <1>2. Shaped /\ now \in Nat
    BY DEF Base, Shaped
  <1>3. Shaped'
    BY <1>1, <1>2 DEF Shaped
  <1>4. \A k \in Keys : calls[k] # NoCall => calls[k].at \in Nat /\ calls[k].at <= now
    BY DEF Base, Shaped, CallRow
  <1>5. ASSUME NEW r \in Requests PROVE Placed(r)'
    <2>1. Placed(r) /\ loc[r].asked \in Nat /\ loc[r].kept \in Nat
      BY DEF Base, Shaped, Held
    <2>2. Finished' = Finished
      BY <1>1 DEF Finished
    <2> QED BY <1>1, <1>2, <2>1, <2>2 DEF Placed
  <1> QED BY <1>1, <1>2, <1>3, <1>4, <1>5 DEF Base

\* So does a step that changes nothing.
LEMMA StutterBase ==
    ASSUME Base, UNCHANGED vars PROVE Base'
  <1>1. UNCHANGED <<rules, nextRule, allow, calls, log, pc, loc, now, edits, failures, granted>>
    BY DEF vars
  <1>2. Finished' = Finished
    BY <1>1 DEF Finished
  <1> QED BY <1>1, <1>2 DEF Base, Shaped, Placed

\* A step is a call's, the end of the process, the console's or the clock's.
LEMMA StepIs ==
    ASSUME Base, [Next]_vars
    PROVE  \/ \E r \in Requests : Only(r) /\ Moves(r)
           \/ Crash \/ Console \/ Tick \/ UNCHANGED vars
  <1>1. ASSUME NEW r \in Requests, Call(r) PROVE Only(r) /\ Moves(r)
    BY <1>1, CallDoes DEF Base, Placed
  <1> QED BY <1>1 DEF Next

\* Every step keeps rows and calls in their places, whichever call, edit or failure it is.
LEMMA StepBase == Base /\ [Next]_vars => Base'
  BY StepIs, CallBase, CrashBase, ConsoleBase, TickBase, StutterBase

\* Rows and calls are in their places in every reachable state.
LEMMA BaseHolds == Spec => []Base
  BY InitBase, StepBase, PTL DEF Spec

\* Every table row, step and held value has the shape the code gives it, in every
\* reachable state: what is stored carries no time to come, and a call works once.
THEOREM TypeCorrect == Spec => []TypeOK
  <1>1. ASSUME Base PROVE TypeOK
    <2>1. \A i \in RuleIds : rules[i] = NoRule \/ rules[i] \in RuleRow
      BY <1>1 DEF Base, Shaped
    <2>2. \A s \in Stands : allow[s] \subseteq Prefix
      BY <1>1 DEF Base, Shaped
    <2>3. \A k \in Keys : calls[k] # NoCall => calls[k] \in CallRow /\ calls[k].at <= now
      BY <1>1 DEF Base, Shaped
    <2>4. \A r \in Requests : log[r] # NoEntry => log[r] \in EntryRow
      BY <1>1 DEF Base, Shaped
    <2>5. ASSUME NEW r \in Requests
          PROVE  /\ pc[r] \in Steps /\ loc[r].rule \in RuleIds \union {0} /\ loc[r].answer \in Answers
                 /\ loc[r].works \in 0..1 /\ loc[r].asked \in 0..now /\ loc[r].kept \in 0..now
      BY <1>1 DEF Base, Shaped, Held, Placed
    <2> QED BY <2>1, <2>2, <2>3, <2>4, <2>5 DEF TypeOK, Steps
  <1> QED BY <1>1, BaseHolds, PTL

-----------------------------------------------------------------------------
(* Whoever got past a list that is not empty came from a network on it, bit for *)
(* bit: the address that decides is the last readable one of the first line.    *)

\* A nonempty set of positions up to n has a last one, and Max is it.
LEMMA LastExists ==
    ASSUME NEW n \in Nat, NEW S \in SUBSET (1..n), S # {}
    PROVE  Max(S) \in S /\ \A i \in S : Max(S) >= i
  <1> DEFINE Left == {n - i : i \in S}
  <1>1. Left \subseteq Nat /\ Left # {}
    <2>1. ASSUME NEW i \in S PROVE n - i \in Nat
      OBVIOUS
    <2>2. PICK i \in S : TRUE
      OBVIOUS
    <2>3. n - i \in Left
      BY <2>2
    <2> QED BY <2>1, <2>3
  <1> HIDE DEF Left
  <1>2. PICK m \in Left : \A k \in Left : ~(k < m)
    <2>1. PICK k \in Left : TRUE
      BY <1>1
    <2> QED BY <1>1, <2>1, LeastExists
  <1> USE DEF Left
  <1>3. PICK x \in S : m = n - x
    BY <1>2
  <1>4. \A y \in S : x >= y
    <2> SUFFICES ASSUME NEW y \in S PROVE x >= y
      OBVIOUS
    <2>1. n - y \in Left
      OBVIOUS
    <2>2. ~(n - y < n - x)
      BY <1>2, <1>3, <2>1
    <2> QED BY <2>2
  <1> QED BY <1>3, <1>4 DEF Max

\* The address a call is checked for is the one that decides.
LEMMA DecidingIsSeen ==
    ASSUME NEW q \in Arrivals
    PROVE  Decides(ClientAddr(q.remote, Chain(q.forwarded), TrustForwarded), q)
  <1> DEFINE chain == Chain(q.forwarded)
             readable == {i \in DOMAIN chain : chain[i] \in Address}
             a == ClientAddr(q.remote, chain, TrustForwarded)
  <1>1. q.forwarded \in Seq(Seq(Address \union {Unreadable}))
    BY PipelineAssumption DEF ArrivalOK
  <1>2. chain \in Seq(Address \union {Unreadable})
    BY <1>1 DEF Chain
  <1>3. \A i \in DOMAIN chain : i \notin readable => chain[i] = Unreadable
    BY <1>2
  <1>4. CASE TrustForwarded /\ readable # {}
    <2>1. Len(chain) \in Nat /\ DOMAIN chain = 1..Len(chain)
      BY <1>2
    <2>2. readable \in SUBSET (1..Len(chain))
      BY <2>1
    <2>3. a = chain[Max(readable)]
      BY <1>4 DEF ClientAddr
    <2> HIDE DEF readable, a, chain
    <2>4. Max(readable) \in readable /\ \A i \in readable : Max(readable) >= i
      BY <1>4, <2>1, <2>2, LastExists
    <2>5. ASSUME NEW j \in DOMAIN chain, j > Max(readable) PROVE chain[j] = Unreadable
      <3>1. j \in Nat /\ Max(readable) \in Nat
        <4>1. j \in 1..Len(chain)
          BY <2>1, <2>5
        <4>2. Max(readable) \in 1..Len(chain)
          BY <2>2, <2>4
        <4> QED BY <2>1, <4>1, <4>2
      <3>2. j \notin readable
        BY <2>4, <2>5, <3>1
      <3> QED BY <1>3, <3>2
    <2>6. Max(readable) \in DOMAIN chain
      BY <2>1, <2>2, <2>4
    <2>7. Decides(a, q)
      BY <1>4, <2>3, <2>5, <2>6 DEF Decides, chain
    <2> QED BY <2>7 DEF a, chain
  <1>5. CASE TrustForwarded /\ readable = {}
    <2>1. a = q.remote
      BY <1>5 DEF ClientAddr
    <2>2. \A i \in DOMAIN chain : chain[i] = Unreadable
      BY <1>3, <1>5
    <2> QED BY <1>5, <2>1, <2>2 DEF Decides
  <1>6. CASE ~TrustForwarded
    BY <1>6 DEF ClientAddr, Decides
  <1> QED BY <1>4, <1>5, <1>6

\* Only an admission takes a call past the list.
LEMMA OnlyAdmitOpens ==
    ASSUME Base, [Next]_vars, NEW r \in Requests, pc[r] = "new", pc'[r] = "rules"
    PROVE  \E q \in Arrivals : Admitted(q) /\ loc'[r].req = q
  <1>1. \E s \in Requests : Call(s)
    <2>1. ~Crash
      <3> SUFFICES ASSUME Crash PROVE FALSE
        OBVIOUS
      <3>1. pc'[r] = pc[r] \/ pc'[r] = "done"
        BY CrashDoes DEF Base
      <3> QED BY <3>1
    <2>2. ~Console /\ ~Tick /\ ~UNCHANGED vars
      BY ConsoleDoes DEF Base, Tick, vars
    <2> QED BY <2>1, <2>2 DEF Next
  <1>2. PICK s \in Requests : Call(s)
    BY <1>1
  <1>3. Only(s) /\ Moves(s)
    BY <1>2, CallDoes DEF Base, Placed
  <1>4. s = r
    BY <1>3 DEF Only
  <1>5. \E q \in Arrivals : Admit(r, q) \/ TurnAway(r, q) \/ AdmitFails(r, q)
    BY <1>2, <1>4 DEF Call, Evaluate, EvaluateFails, Consume, ConsumeFails, Apply, Recall,
       RecallFails, Refuse, Work, Remember, Record
  <1>6. PICK q \in Arrivals : Admit(r, q) \/ TurnAway(r, q) \/ AdmitFails(r, q)
    BY <1>5
  <1>7. Admit(r, q)
    BY <1>6 DEF TurnAway, AdmitFails, Arrives, Goto, Base, Shaped
  <1>8. loc'[r].req = q
    <2>1. loc' = [loc EXCEPT ![r] = [Fresh EXCEPT !.req = q, !.before = Finished, !.answer = Silence]]
      BY <1>7 DEF Admit, Arrives
    <2>2. [Fresh EXCEPT !.req = q, !.before = Finished, !.answer = Silence].req = q
      BY DEF Fresh
    <2> QED BY <2>1, <2>2 DEF Base, Shaped
  <1> QED BY <1>7, <1>8 DEF Admit

\* No step lets a call past a list that is not empty unless the address that decides -
\* the last readable entry of the first forwarded line behind a trusted proxy, the peer
\* otherwise - lies, bit for bit, in a network on the list, for every address width
\* (Allowlist.Wrap, ParsePrefix, Allows, ClientAddr).
THEOREM ListIsKept == Spec => AdmittedWasListed
  <1>1. ASSUME Base, [Next]_vars
        PROVE  [\A r \in Requests : pc[r] = "new" /\ pc'[r] = "rules" =>
                  LET q == loc'[r].req
                  IN  allow[q.stand] # {} =>
                        \E a \in Address, p \in allow[q.stand] :
                           Decides(a, q) /\ HighBits(a, p.len) = HighBits(p.net, p.len)]_vars
    <2> SUFFICES ASSUME NEW r \in Requests, pc[r] = "new", pc'[r] = "rules",
                        allow[loc'[r].req.stand] # {}
                 PROVE  \E a \in Address, p \in allow[loc'[r].req.stand] :
                           /\ Decides(a, loc'[r].req)
                           /\ HighBits(a, p.len) = HighBits(p.net, p.len)
      OBVIOUS
    <2>1. PICK q \in Arrivals : Admitted(q) /\ loc'[r].req = q
      BY <1>1, OnlyAdmitOpens
    <2> DEFINE a == ClientAddr(q.remote, Chain(q.forwarded), TrustForwarded)
    <2>2. Decides(a, q)
      BY DecidingIsSeen
    <2> HIDE DEF a
    <2>3. a \in Address /\ Allows(allow[q.stand], a)
      BY <2>1 DEF Admitted, a
    <2>4. PICK p \in allow[q.stand] : Contains(p, a)
      BY <2>1, <2>3 DEF Allows
    <2>5. p \in Prefix
      <3>1. q.stand \in Stands
        BY PipelineAssumption DEF ArrivalOK
      <3> QED BY <1>1, <3>1 DEF Base, Shaped
    <2>6. HighBits(a, p.len) = HighBits(p.net, p.len)
      BY <2>3, <2>4, <2>5, SameNetworkSameBits
    <2> QED BY <2>1, <2>2, <2>3, <2>4, <2>6
  <1> QED BY <1>1, BaseHolds, PTL DEF Spec, AdmittedWasListed

-----------------------------------------------------------------------------
(* What a caller receives is the work of the same call: every result held, and *)
(* every result stored, names only calls that worked for the same key and body. *)
Worker(w, k, body) ==
    /\ loc[w].works = 1 /\ loc[w].req.method \in Listed
    /\ CallKey(loc[w].req) = k /\ loc[w].req.body = body

Backed(r) == \A w \in loc[r].answer.by :
    loc[w].works = 1 /\ (w # r => Worker(w, CallKey(loc[r].req), loc[r].req.body))

RowBacked(k) == calls[k] # NoCall => \A w \in calls[k].answer.by : Worker(w, k, calls[k].body)

ReplayInv == (\A r \in Requests : Backed(r)) /\ \A k \in Keys : RowBacked(k)

\* What a call is does not change, nor that it worked.
LEMMA CallsStay ==
    ASSUME Base, NEW r \in Requests, Only(r), Moves(r), NEW s \in Requests
    PROVE  /\ loc[s].req # NoCall => loc'[s].req = loc[s].req /\ loc'[s].before = loc[s].before
           /\ loc[s].works = 1 => loc'[s].works = 1 /\ loc'[s].req = loc[s].req
  <1>1. CASE s # r
    BY <1>1 DEF Only
  <1>2. CASE s = r
    <2>1. Placed(r) /\ (pc[r] = "new" => loc[r].req = NoCall /\ loc[r].works = 0)
      BY FreshIs DEF Base, Placed
    <2>2. Arriving(r) => pc[r] = "new"
      BY DEF Arriving
    <2>3. ~Arriving(r) => loc'[r].req = loc[r].req /\ loc'[r].before = loc[r].before
      BY DEF Moves, Deciding, Dismissing, Consuming, Applying, Replaying, Missing, Refusing,
             Working, Remembering, Recording, SameCall
    <2>4. Working(r) => loc[r].works = 0
      BY <2>1 DEF Working, Placed
    <2>5. ~Arriving(r) /\ ~Working(r) => loc'[r].works = loc[r].works
      BY DEF Moves, Deciding, Dismissing, Consuming, Applying, Replaying, Missing, Refusing,
             Remembering, Recording, SameWork
    <2> QED BY <1>2, <2>1, <2>2, <2>3, <2>4, <2>5
  <1> QED BY <1>1, <1>2

\* Where an answer comes from.
LEMMA AnswersMove ==
    ASSUME Base, NEW r \in Requests, Only(r), Moves(r)
    PROVE  \/ loc'[r].answer.by = {}
           \/ loc'[r].answer = loc[r].answer /\ loc'[r].req = loc[r].req
           \/ loc'[r].answer.by = {r} /\ loc'[r].works = 1
           \/ /\ loc[r].req \in Arrivals /\ loc'[r].req = loc[r].req
              /\ Recalled(calls[CallKey(loc[r].req)], loc[r].req)
              /\ loc'[r].answer = calls[CallKey(loc[r].req)].answer
  <1>1. Placed(r) /\ Silence.by = {} /\ Answer("refusal", {}).by = {} /\ Answer("result", {r}).by = {r}
    BY DEF Base, Silence, Answer
  <1>2. CASE Arriving(r)
    BY <1>2 DEF Arriving
  <1>3. CASE Deciding(r) \/ Dismissing(r) \/ Consuming(r) \/ Missing(r) \/ Recording(r)
    BY <1>3 DEF Deciding, Dismissing, Consuming, Missing, Recording, SameCall
  <1>4. CASE Applying(r)
    BY <1>4 DEF Applying, SameCall
  <1>5. CASE Replaying(r)
    <2>1. loc[r].req \in Arrivals /\ loc'[r].req = loc[r].req
      BY <1>1, <1>5 DEF Replaying, Placed, SameCall
    <2> QED BY <1>1, <1>5, <2>1 DEF Replaying, Delivering
  <1>6. CASE Refusing(r)
    BY <1>1, <1>6 DEF Refusing, Delivering
  <1>7. CASE Working(r)
    <2>1. loc'[r].works = 1
      BY <1>1, <1>7 DEF Working, Placed
    <2> QED BY <1>1, <1>7, <2>1 DEF Working, Delivering
  <1>8. CASE Remembering(r)
    BY <1>1, <1>8 DEF Remembering, Delivering, SameCall
  <1> QED BY <1>2, <1>3, <1>4, <1>5, <1>6, <1>7, <1>8 DEF Moves

\* Who did the work behind an answer stays so.
LEMMA WorkersStay ==
    ASSUME Base, NEW r \in Requests, Only(r), Moves(r),
           NEW w \in Requests, NEW k, NEW body, Worker(w, k, body)
    PROVE  /\ loc'[w].works = 1 /\ loc'[w].req.method \in Listed
           /\ CallKey(loc'[w].req) = k /\ loc'[w].req.body = body
  BY CallsStay DEF Worker

\* A call's step keeps stored and held answers backed by work.
LEMMA CallReplay ==
    ASSUME Base, ReplayInv, NEW r \in Requests, Only(r), Moves(r) PROVE ReplayInv'
  <1>1. ASSUME NEW s \in Requests PROVE loc[s].answer.by \subseteq Requests /\ loc'[s].answer.by \subseteq Requests
    BY DEF Base, Shaped, Only, Held, Answers
  <1>2. ASSUME NEW k \in Keys PROVE calls[k] # NoCall => calls[k].answer.by \subseteq Requests
    BY DEF Base, Shaped, CallRow, Answers
  <1>3. ASSUME NEW s \in Requests, NEW w \in loc'[s].answer.by
        PROVE  /\ loc'[w].works = 1
               /\ w # s => /\ loc'[w].req.method \in Listed
                           /\ CallKey(loc'[w].req) = CallKey(loc'[s].req)
                           /\ loc'[w].req.body = loc'[s].req.body
    <2>1. w \in Requests
      BY <1>1
    <2>2. ASSUME w \in loc[s].answer.by, loc'[s].req = loc[s].req
          PROVE  /\ loc'[w].works = 1
                 /\ w # s => /\ loc'[w].req.method \in Listed
                             /\ CallKey(loc'[w].req) = CallKey(loc'[s].req)
                             /\ loc'[w].req.body = loc'[s].req.body
      <3>1. loc[w].works = 1 /\ (w # s => Worker(w, CallKey(loc[s].req), loc[s].req.body))
        BY <2>2 DEF ReplayInv, Backed
      <3>2. loc'[w].works = 1
        BY <2>1, <3>1, CallsStay
      <3> QED BY <2>1, <2>2, <3>1, <3>2, WorkersStay
    <2>3. CASE s # r
      BY <2>2, <2>3 DEF Only
    <2>4. CASE s = r
      <3>1. CASE loc'[r].answer = loc[r].answer /\ loc'[r].req = loc[r].req
        BY <2>2, <2>4, <3>1
      <3>2. CASE loc'[r].answer.by = {r} /\ loc'[r].works = 1
        BY <2>4, <3>2
      <3>3. CASE /\ loc[r].req \in Arrivals /\ loc'[r].req = loc[r].req
                 /\ Recalled(calls[CallKey(loc[r].req)], loc[r].req)
                 /\ loc'[r].answer = calls[CallKey(loc[r].req)].answer
        <4> DEFINE k == CallKey(loc[r].req)
        <4>1. k \in Keys /\ calls[k] # NoCall /\ calls[k].body = loc[r].req.body
          BY <3>3 DEF Keys, Recalled
        <4>2. Worker(w, k, calls[k].body)
          BY <2>4, <3>3, <4>1 DEF ReplayInv, RowBacked
        <4> HIDE DEF k
        <4>3. /\ loc'[w].works = 1 /\ loc'[w].req.method \in Listed
              /\ CallKey(loc'[w].req) = k /\ loc'[w].req.body = calls[k].body
          BY <2>1, <4>2, WorkersStay
        <4> QED BY <2>4, <3>3, <4>1, <4>3 DEF k
      <3>4. loc'[r].answer.by # {}
        BY <2>4
      <3> QED BY <3>1, <3>2, <3>3, <3>4, AnswersMove
    <2> QED BY <2>3, <2>4
  <1>4. ASSUME NEW k \in Keys, calls'[k] # NoCall, NEW w \in calls'[k].answer.by
        PROVE  /\ loc'[w].works = 1 /\ loc'[w].req.method \in Listed
               /\ CallKey(loc'[w].req) = k /\ loc'[w].req.body = calls'[k].body
    <2>1. CASE calls'[k] = calls[k]
      BY <1>2, <1>4, <2>1, WorkersStay DEF ReplayInv, RowBacked
    <2>2. CASE calls'[k] # calls[k]
      <3> DEFINE q == loc[r].req
      <3>1. Remembering(r)
        BY <2>2, TablesMove
      <3>2. calls' = [calls EXCEPT ![CallKey(q)] = Remembered(@, q, loc[r].answer)]
        BY <2>2, <3>1 DEF Remembering
      <3>3. k = CallKey(q) /\ calls'[k] = Remembered(calls[k], q, loc[r].answer)
        BY <2>2, <3>2 DEF Base, Shaped
      <3>4. calls'[k].body = q.body /\ calls'[k].answer = Jsonb(loc[r].answer)
        BY <2>2, <3>3 DEF Remembered
      <3>5. w \in loc[r].answer.by /\ w \in Requests
        <4>1. Jsonb(loc[r].answer).by = loc[r].answer.by
          BY JsonbIs DEF Base, Shaped, Held
        <4> QED BY <1>1, <1>4, <3>4, <4>1
      <3>6. loc[r].works = 1 /\ q.method \in Listed
        BY <3>1 DEF Remembering, Base, Placed
      <3>7. Worker(w, k, q.body)
        BY <3>3, <3>5, <3>6 DEF ReplayInv, Backed, Worker
      <3> HIDE DEF q
      <3> QED BY <3>4, <3>5, <3>7, WorkersStay
    <2> QED BY <2>1, <2>2
  <1> QED BY <1>3, <1>4 DEF ReplayInv, Backed, RowBacked, Worker

\* So does the end of the process.
LEMMA CrashReplay ==
    ASSUME Base, ReplayInv, Crash PROVE ReplayInv'
  <1>1. ASSUME NEW s \in Requests
        PROVE  /\ loc'[s].works = loc[s].works /\ loc'[s].req = loc[s].req
               /\ loc'[s].answer = loc[s].answer \/ loc'[s].answer.by = {}
               /\ loc[s].answer.by \subseteq Requests
    <2>1. loc[s].answer.by \subseteq Requests
      BY DEF Base, Shaped, Held, Answers
    <2> QED BY <2>1, CrashDoes DEF Base, SameCall, SameWork
  <1>2. calls' = calls /\ \A k \in Keys : calls[k] # NoCall => calls[k].answer.by \subseteq Requests
    BY CrashDoes DEF Base, Shaped, CallRow, Answers
  <1> QED BY <1>1, <1>2 DEF ReplayInv, Backed, RowBacked, Worker

\* Initially nothing is stored or held (CallStore).
LEMMA InitReplay == Init => ReplayInv
  <1> SUFFICES ASSUME Init PROVE ReplayInv
    OBVIOUS
  <1>1. \A r \in Requests : loc[r].answer.by = {}
    BY FreshIs DEF Init
  <1>2. \A k \in Keys : calls[k] = NoCall
    BY DEF Init
  <1> QED BY <1>1, <1>2 DEF ReplayInv, Backed, RowBacked

\* Every step keeps stored and held answers backed by work of the same call.
LEMMA StepReplay == Base /\ ReplayInv /\ [Next]_vars => ReplayInv'
  <1> SUFFICES ASSUME Base, ReplayInv, [Next]_vars PROVE ReplayInv'
    OBVIOUS
  <1>1. ASSUME UNCHANGED <<loc, calls>> PROVE ReplayInv'
    BY <1>1 DEF ReplayInv, Backed, RowBacked, Worker
  <1>2. Console \/ Tick \/ UNCHANGED vars => UNCHANGED <<loc, calls>>
    BY ConsoleDoes DEF Base, Tick, vars, tables
  <1> QED BY <1>1, <1>2, StepIs, CallReplay, CrashReplay

\* In every reachable state, a caller who holds a result holds that of the same call:
\* the same stand, method, id and parameters (CallStore.Recall and Remember).
THEOREM ReplaysAreHonest == Spec => []ReplayIsTheFirstAnswer
  <1>1. Base /\ ReplayInv => ReplayIsTheFirstAnswer
    BY DEF ReplayInv, Backed, Worker, ReplayIsTheFirstAnswer
  <1> QED BY <1>1, InitReplay, StepReplay, BaseHolds, PTL DEF Spec

-----------------------------------------------------------------------------
(* One intention, one piece of work.  What is stored is some call's; a call     *)
(* that worked is still stored once it has been remembered, and stored no       *)
(* earlier than that; and a call that came after its end asks too late for it.  *)
Same(a, b) == CallKey(loc[a].req) = CallKey(loc[b].req) /\ loc[a].req.body = loc[b].req.body

\* The key belongs to one body, nothing was lost, and the call is one that is stored.
Repeatable(a) ==
    /\ failures = 0 /\ loc[a].works = 1 /\ loc[a].req # NoCall
    /\ loc[a].req.method \in Listed /\ loc[a].req.id # NoId
    /\ \A c \in Requests : loc[c].req # NoCall /\ CallKey(loc[c].req) = CallKey(loc[a].req)
                            => loc[c].req.body = loc[a].req.body

RowsAsked == \A k \in Keys : calls[k] # NoCall =>
    \E c \in Requests : /\ loc[c].req # NoCall /\ CallKey(loc[c].req) = k
                        /\ loc[c].req.body = calls[k].body

Stored(a) ==
    LET row == calls[CallKey(loc[a].req)]
    IN  row # NoCall /\ row.body = loc[a].req.body /\ row.at >= loc[a].kept

AskedLate(a, b) ==
    a \in loc[b].before /\ Repeatable(a) /\ Same(a, b)
    /\ (loc[b].works = 1 \/ (pc[b] = "work" /\ loc[b].unread))
    => loc[b].asked >= loc[a].kept + Window

OnceInv ==
    /\ RowsAsked
    /\ \A a \in Requests : Repeatable(a) /\ Window > 0 /\ pc[a] # "remember" => Stored(a)
    /\ \A a, b \in Requests : AskedLate(a, b)

\* A call that arrived has a key.
LEMMA ArrivedIsKeyed ==
    ASSUME Base, NEW r \in Requests, loc[r].req # NoCall
    PROVE  loc[r].req \in Arrivals /\ CallKey(loc[r].req) \in Keys
  BY FreshIs DEF Base, Placed, Keys

\* What makes a call repeatable held before the step, unless the step was its work.
LEMMA RepeatableBefore ==
    ASSUME Base, NEW r \in Requests, Only(r), Moves(r), NEW a \in Requests,
           Repeatable(a)', loc[a].works = 1
    PROVE  Repeatable(a) /\ loc'[a].req = loc[a].req /\ loc[a].req # NoCall
  <1>1. failures = 0
    BY DEF Repeatable, Only, Base, Shaped
  <1>2. loc'[a].req = loc[a].req /\ loc[a].req # NoCall
    BY CallsStay DEF Repeatable
  <1>3. \A c \in Requests : loc[c].req # NoCall => loc'[c].req = loc[c].req
    BY CallsStay
  <1> QED BY <1>1, <1>2, <1>3 DEF Repeatable

\* After a call's step a stored row still has a call that asked for it.
LEMMA CallRowsAsked ==
    ASSUME Base, RowsAsked, NEW r \in Requests, Only(r), Moves(r) PROVE RowsAsked'
  <1> SUFFICES ASSUME NEW k \in Keys, calls'[k] # NoCall
               PROVE  \E c \in Requests : /\ loc'[c].req # NoCall /\ CallKey(loc'[c].req) = k
                                          /\ loc'[c].req.body = calls'[k].body
    BY DEF RowsAsked
  <1>1. CASE calls'[k] = calls[k]
    <2>1. PICK c \in Requests : /\ loc[c].req # NoCall /\ CallKey(loc[c].req) = k
                               /\ loc[c].req.body = calls[k].body
      BY <1>1 DEF RowsAsked
    <2> QED BY <1>1, <2>1, CallsStay
  <1>2. CASE calls'[k] # calls[k]
    <2>1. Remembering(r)
      BY <1>2, TablesMove
    <2>2. calls' = [calls EXCEPT ![CallKey(loc[r].req)] = Remembered(@, loc[r].req, loc[r].answer)]
      BY <1>2, <2>1 DEF Remembering
    <2>3. k = CallKey(loc[r].req) /\ calls'[k] = Remembered(calls[k], loc[r].req, loc[r].answer)
      BY <1>2, <2>2 DEF Base, Shaped
    <2>4. calls'[k].body = loc[r].req.body
      BY <1>2, <2>3 DEF Remembered
    <2>5. loc[r].req # NoCall /\ loc'[r].req = loc[r].req
      <3>1. loc[r].req \in Arrivals
        BY <2>1 DEF Remembering, Base, Placed
      <3> QED BY <2>1, <3>1, PipelineAssumption DEF Remembering, SameCall
    <2> QED BY <2>3, <2>4, <2>5
  <1> QED BY <1>1, <1>2

\* A row of the same body is renewed, any other is left alone.
LEMMA RowsRenewed ==
    ASSUME Base, NEW r \in Requests, Only(r), Moves(r), NEW k \in Keys, calls[k] # NoCall
    PROVE  calls'[k] # NoCall /\ calls'[k].body = calls[k].body /\ calls'[k].at >= calls[k].at
  <1>1. calls[k].at \in Nat /\ calls[k].at <= now /\ now \in Nat
    BY DEF Base, Shaped, CallRow
  <1>2. CASE calls'[k] = calls[k]
    BY <1>1, <1>2
  <1>3. CASE calls'[k] # calls[k]
    <2>1. Remembering(r)
      BY <1>3, TablesMove
    <2>2. calls' = [calls EXCEPT ![CallKey(loc[r].req)] = Remembered(@, loc[r].req, loc[r].answer)]
      BY <1>3, <2>1 DEF Remembering
    <2>3. calls'[k] = Remembered(calls[k], loc[r].req, loc[r].answer)
      BY <1>3, <2>2 DEF Base, Shaped
    <2>4. /\ calls[k].body = loc[r].req.body
          /\ calls'[k] = [body |-> loc[r].req.body, answer |-> Jsonb(loc[r].answer), at |-> now]
      BY <1>3, <2>3 DEF Remembered
    <2>5. calls'[k] \in CallRow
      <3>1. loc[r].req \in Arrivals
        BY <2>1 DEF Remembering, Base, Placed
      <3>2. Jsonb(loc[r].answer) \in Answers
        BY JsonbIs DEF Base, Shaped, Held
      <3> QED BY <1>1, <2>4, <3>1, <3>2, PipelineAssumption DEF CallRow, ArrivalOK
    <2> QED BY <1>1, <2>4, <2>5, PipelineAssumption
  <1> QED BY <1>2, <1>3

\* What a repeatable call did stays stored for the window.
LEMMA CallStored ==
    ASSUME Base, OnceInv, NEW r \in Requests, Only(r), Moves(r),
           NEW a \in Requests, Repeatable(a)', Window > 0, pc'[a] # "remember"
    PROVE  Stored(a)'
  <1> DEFINE k == CallKey(loc[a].req)
  <1>1. CASE loc[a].works # 1
    <2>1. a = r
      BY <1>1 DEF Only, Repeatable
    <2>2. ~Arriving(r)
      BY <2>1, FreshIs DEF Arriving, Repeatable, SameWork
    <2>3. Working(r)
      BY <1>1, <2>1, <2>2 DEF Moves, Deciding, Dismissing, Consuming, Applying, Replaying, Missing,
         Refusing, Remembering, Recording, SameWork, Repeatable
    <2>4. loc[r].unread /\ loc'[r].req = loc[r].req /\ pc'[r] # "remember" /\ failures' = 0
      BY <2>1, <2>3 DEF Working, SameCall, Repeatable
    <2>5. Keyed(r)
      BY <2>1, <2>4 DEF Keyed, Repeatable
    <2> QED BY <2>3, <2>4, <2>5 DEF Working
  <1>2. CASE loc[a].works = 1
    <2>1. Repeatable(a) /\ loc'[a].req = loc[a].req /\ loc[a].req # NoCall
      BY <1>2, RepeatableBefore
    <2>2. k \in Keys
      BY <2>1, ArrivedIsKeyed
    <2>3. CASE pc[a] # "remember"
      <3>1. calls[k] # NoCall /\ calls[k].body = loc[a].req.body /\ calls[k].at >= loc[a].kept
        BY <2>1, <2>3 DEF OnceInv, Stored
      <3>2. loc'[a].kept = loc[a].kept
        <4>1. CASE a # r
          BY <4>1 DEF Only
        <4>2. CASE a = r
          <5>1. Placed(r) /\ pc[r] # "new"
            BY <2>1, <4>2, FreshIs DEF Base, Placed
          <5> QED BY <2>3, <4>2, <5>1 DEF Moves, Arriving, Deciding, Dismissing, Consuming, Applying,
                 Replaying, Missing, Refusing, Working, Remembering, Recording, SameWork
        <4> QED BY <4>1, <4>2
      <3>3. calls'[k] # NoCall /\ calls'[k].body = calls[k].body /\ calls'[k].at >= calls[k].at
        BY <2>2, <3>1, RowsRenewed
      <3>4. calls[k].at \in Nat /\ calls'[k].at \in Nat /\ loc[a].kept \in Nat
        <4>1. calls' \in [Keys -> CallRow \union {NoCall}]
          BY CallBase DEF Base, Shaped
        <4> QED BY <2>2, <3>1, <3>3, <4>1 DEF Base, Shaped, CallRow, Held
      <3> HIDE DEF k
      <3>5. calls'[k].at >= loc'[a].kept /\ calls'[k].body = loc'[a].req.body
        BY <2>1, <3>1, <3>2, <3>3, <3>4
      <3> QED BY <2>1, <3>3, <3>5 DEF Stored, k
    <2>4. CASE pc[a] = "remember"
      <3>1. a = r /\ Remembering(r)
        BY <2>4 DEF Only, Moves, Arriving, Deciding, Dismissing, Consuming, Applying, Replaying,
           Missing, Refusing, Working, Recording
      <3>2. calls' = [calls EXCEPT ![k] = Remembered(@, loc[r].req, loc[r].answer)]
        BY <3>1 DEF Remembering, Repeatable
      <3>3. calls'[k] = Remembered(calls[k], loc[r].req, loc[r].answer)
        BY <2>2, <3>2 DEF Base, Shaped
      <3>4. calls[k] = NoCall \/ calls[k].body = loc[r].req.body
        <4>1. SUFFICES ASSUME calls[k] # NoCall PROVE calls[k].body = loc[a].req.body
          BY <3>1
        <4>2. PICK c \in Requests : /\ loc[c].req # NoCall /\ CallKey(loc[c].req) = k
                                   /\ loc[c].req.body = calls[k].body
          BY <2>2, <4>1 DEF OnceInv, RowsAsked
        <4> QED BY <2>1, <4>2 DEF Repeatable
      <3>5. calls'[k] = [body |-> loc[r].req.body, answer |-> Jsonb(loc[r].answer), at |-> now]
        BY <3>3, <3>4 DEF Remembered
      <3>6. calls'[k] \in CallRow
        <4>1. loc[r].req \in Arrivals
          BY <2>1, <3>1, ArrivedIsKeyed
        <4>2. Jsonb(loc[r].answer) \in Answers /\ now \in Nat
          BY JsonbIs DEF Base, Shaped, Held
        <4> QED BY <3>5, <4>1, <4>2, PipelineAssumption DEF CallRow, ArrivalOK
      <3>7. calls'[k] # NoCall /\ calls'[k].body = loc[r].req.body /\ calls'[k].at = now
        BY <3>5, <3>6, PipelineAssumption
      <3>8. loc'[r].kept = now /\ now \in Nat
        BY <3>1 DEF Remembering, Base, Shaped
      <3> HIDE DEF k
      <3> QED BY <2>1, <3>1, <3>7, <3>8 DEF Stored, k
    <2> QED BY <2>3, <2>4
  <1> QED BY <1>1, <1>2

\* A repeat within the window asks after the answer was stored.
LEMMA CallAskedLate ==
    ASSUME Base, OnceInv, NEW r \in Requests, Only(r), Moves(r),
           NEW a \in Requests, NEW b \in Requests, a \in loc'[b].before,
           Repeatable(a)', Same(a, b)', loc'[b].works = 1 \/ (pc'[b] = "work" /\ loc'[b].unread)
    PROVE  loc'[b].asked >= loc'[a].kept + Window
  <1>1. b = r => ~Arriving(r)
    BY FreshIs DEF Arriving, SameWork
  <1>2. loc'[b].before = loc[b].before /\ loc'[b].req = loc[b].req
    <2>1. CASE b # r
      BY <2>1 DEF Only
    <2>2. CASE b = r
      BY <1>1, <2>2 DEF Moves, Deciding, Dismissing, Consuming, Applying, Replaying, Missing,
         Refusing, Working, Remembering, Recording, SameCall
    <2> QED BY <2>1, <2>2
  <1>3. pc[a] = "done" /\ a # r /\ loc'[a] = loc[a]
    <2>1. loc[b].before \subseteq Finished
      BY DEF Base, Placed
    <2>2. pc[a] = "done"
      BY <1>2, <2>1 DEF Finished
    <2>3. a # r
      BY <2>2, MovesOn
    <2> QED BY <2>2, <2>3 DEF Only
  <1>4. loc[a].works = 1
    BY <1>3 DEF Repeatable
  <1>5. Repeatable(a) /\ Same(a, b)
    BY <1>2, <1>3, <1>4, RepeatableBefore DEF Same
  <1>6. ASSUME loc[b].works = 1 \/ (pc[b] = "work" /\ loc[b].unread)
        PROVE  loc[b].asked >= loc[a].kept + Window
    BY <1>2, <1>5, <1>6 DEF OnceInv, AskedLate
  <1>7. CASE b # r
    <2>1. loc'[b] = loc[b] /\ pc'[b] = pc[b]
      BY <1>7 DEF Only
    <2> QED BY <1>3, <1>6, <2>1
  <1>8. CASE b = r /\ ~Missing(r)
    <2>1. loc'[r].asked = loc[r].asked
      BY <1>1, <1>8 DEF Moves, Deciding, Dismissing, Consuming, Applying, Replaying,
         Refusing, Working, Remembering, Recording
    <2>2. pc'[r] # "work"
      BY <1>1, <1>8 DEF Moves, Arriving, Deciding, Dismissing, Consuming, Applying, Replaying,
         Refusing, Working, Remembering, Recording, Delivering
    <2>3. loc[r].works = 1 \/ (pc[r] = "work" /\ loc[r].unread)
      <3>1. CASE Working(r)
        BY <3>1 DEF Working
      <3>2. CASE ~Working(r)
        BY <1>1, <1>8, <2>2, <3>2 DEF Moves, Deciding, Dismissing, Consuming, Applying, Replaying,
           Refusing, Remembering, Recording, SameWork
      <3> QED BY <3>1, <3>2
    <2> QED BY <1>3, <1>6, <1>8, <2>1, <2>3
  <1>9. CASE b = r /\ Missing(r)
    <2>1. /\ pc[r] = "serve" /\ SameWork(loc'[r], loc[r]) /\ SameBody(loc'[r], loc[r])
          /\ loc'[r].asked = IF Keyed(r) THEN now ELSE loc[r].asked
          /\ (failures' = 0 /\ Keyed(r) => ~Recalled(calls[CallKey(loc[r].req)], loc[r].req))
      BY <1>9 DEF Missing
    <2>2. Placed(r) /\ Placed(a) /\ Window \in Nat /\ now \in Nat
          /\ loc[a].kept \in Nat /\ loc[r].asked \in Nat
      BY PipelineAssumption DEF Base, Shaped, Held
    <2>3. CASE loc[r].works = 1
      <3>1. ~Keyed(r)
        BY <2>2, <2>3 DEF Placed, Keyed
      <3> QED BY <1>3, <1>6, <1>9, <2>1, <2>3, <3>1
    <2>4. CASE loc[r].works # 1
      <3>1. loc[r].unread
        BY <1>9, <2>1, <2>4 DEF SameWork, SameBody
      <3>2. CASE Window = 0
        <4>1. loc[a].kept = 0
          BY <2>2, <3>2 DEF Placed
        <4>2. loc'[r].asked \in Nat
          BY <2>1, <2>2
        <4> QED BY <1>3, <1>9, <3>2, <4>1, <4>2
      <3>3. CASE Window > 0
        <4> DEFINE k == CallKey(loc[a].req)
        <4>1. k = CallKey(loc[r].req) /\ loc[a].req.body = loc[r].req.body
          BY <1>5, <1>9 DEF Same
        <4>2. loc[r].req.method \in Listed /\ loc[r].req.id # NoId
          BY <1>5, <4>1 DEF Repeatable, CallKey
        <4>3. Keyed(r)
          BY <3>1, <3>3, <4>2 DEF Keyed
        <4>4. calls[k] # NoCall /\ calls[k].body = loc[a].req.body /\ calls[k].at >= loc[a].kept
          BY <1>3, <1>5, <3>3 DEF OnceInv, Stored
        <4>5. k \in Keys
          BY <1>5, ArrivedIsKeyed DEF Repeatable
        <4>6. calls[k].at \in Nat
          BY <4>4, <4>5 DEF Base, Shaped, CallRow
        <4>7. failures' = 0
          BY DEF Repeatable
        <4>8. ~Recalled(calls[k], loc[r].req)
          BY <2>1, <4>1, <4>3, <4>7
        <4> HIDE DEF k
        <4>9. calls[k].at + Window <= now
          BY <2>2, <4>1, <4>4, <4>6, <4>8 DEF Recalled
        <4> QED BY <1>3, <1>9, <2>1, <2>2, <4>3, <4>4, <4>6, <4>9
      <3> QED BY <2>2, <3>2, <3>3
    <2> QED BY <2>3, <2>4
  <1> QED BY <1>7, <1>8, <1>9

\* A call's step keeps the once-only invariant.
LEMMA CallOnce ==
    ASSUME Base, OnceInv, NEW r \in Requests, Only(r), Moves(r) PROVE OnceInv'
  <1>1. RowsAsked'
    BY CallRowsAsked DEF OnceInv
  <1>2. ASSUME NEW a \in Requests PROVE (Repeatable(a) /\ Window > 0 /\ pc[a] # "remember" => Stored(a))'
    BY CallStored
  <1>3. ASSUME NEW a \in Requests, NEW b \in Requests PROVE AskedLate(a, b)'
    BY CallAskedLate DEF AskedLate
  <1> QED BY <1>1, <1>2, <1>3 DEF OnceInv

\* So does the end of the process.
LEMMA CrashOnce ==
    ASSUME Base, OnceInv, Crash PROVE OnceInv'
  <1>1. failures' # 0 /\ calls' = calls
    BY CrashDoes DEF Base
  <1>2. \A s \in Requests : loc'[s].req = loc[s].req
    BY CrashDoes DEF Base, SameCall
  <1>3. RowsAsked'
    BY <1>1, <1>2 DEF OnceInv, RowsAsked
  <1> QED BY <1>1, <1>3 DEF OnceInv, AskedLate, Repeatable

\* Initially no call has worked (IdempotencyMiddleware.Wrap).
LEMMA InitOnce == Init => OnceInv
  <1> SUFFICES ASSUME Init PROVE OnceInv
    OBVIOUS
  <1>1. \A r \in Requests : loc[r].works = 0
    BY FreshIs DEF Init
  <1>2. \A k \in Keys : calls[k] = NoCall
    BY DEF Init
  <1> QED BY <1>1, <1>2 DEF OnceInv, RowsAsked, Repeatable, AskedLate

\* Every step keeps work done once within the window.
LEMMA StepOnce == Base /\ OnceInv /\ [Next]_vars => OnceInv'
  <1> SUFFICES ASSUME Base, OnceInv, [Next]_vars PROVE OnceInv'
    OBVIOUS
  <1>1. ASSUME UNCHANGED <<loc, calls, pc, failures>> PROVE OnceInv'
    BY <1>1 DEF OnceInv, RowsAsked, Repeatable, Stored, AskedLate, Same
  <1>2. Console \/ Tick \/ UNCHANGED vars => UNCHANGED <<loc, calls, pc, failures>>
    BY ConsoleDoes DEF Base, Tick, vars, tables
  <1> QED BY <1>1, <1>2, StepIs, CallOnce, CrashOnce

\* In every reachable state, a listed call repeated after the first was answered, with
\* nothing lost on the way, worked again only because it asked after the window had
\* passed (the Idempotency middleware; the doc comment of idempotentMethods).
THEOREM RepeatsAreAnswered == Spec => []OncePerIntention
  <1>1. ASSUME Base, OnceInv PROVE OncePerIntention
    <2> SUFFICES ASSUME NEW a \in Requests, NEW b \in Requests, failures = 0, a \in loc[b].before,
                        loc[a].works = 1, loc[b].works = 1, loc[a].req # NoCall,
                        CallKey(loc[a].req) = CallKey(loc[b].req), loc[a].req.body = loc[b].req.body,
                        loc[b].req.method \in Listed, loc[b].req.id # NoId,
                        \A c \in Requests :
                           loc[c].req # NoCall /\ CallKey(loc[c].req) = CallKey(loc[b].req)
                           => loc[c].req.body = loc[b].req.body
                 PROVE  loc[b].asked >= loc[a].kept + Window
      BY DEF OncePerIntention
    <2>1. loc[a].req.method = loc[b].req.method /\ loc[a].req.id = loc[b].req.id
      BY DEF CallKey
    <2>2. Repeatable(a) /\ Same(a, b)
      BY <2>1 DEF Repeatable, Same
    <2> QED BY <1>1, <2>2 DEF OnceInv, AskedLate
  <1> QED BY <1>1, InitOnce, StepOnce, BaseHolds, PTL DEF Spec

-----------------------------------------------------------------------------
(* The uses of a rule.  While it has uses left, what fired and what is left fit *)
(* in what it was given; once it has none, the calls that were on their way to  *)
(* spend one count as well, and they are the other calls in flight.             *)
FiredBy(i) == {r \in Requests : loc[r].rule = i /\ pc[r] \notin {"consume", "new"}}
Spending(i) == {r \in Requests : loc[r].rule = i /\ pc[r] = "consume"}

UsesOf(i) ==
    rules[i] # NoRule /\ rules[i].left # Unlimited =>
        /\ rules[i].left > 0 => Cardinality(FiredBy(i)) + rules[i].left <= granted[i]
        /\ rules[i].left = 0 => Cardinality(FiredBy(i)) + Cardinality(Spending(i))
                                   <= granted[i] + MaxInFlight - 1

UsesInv == Cardinality(InFlight) <= MaxInFlight /\ \A i \in RuleIds : UsesOf(i)

\* Sets of calls are finite.
LEMMA SetsAreFinite ==
    /\ IsFiniteSet(InFlight) /\ Cardinality(InFlight) \in Nat
    /\ \A i : /\ IsFiniteSet(FiredBy(i)) /\ Cardinality(FiredBy(i)) \in Nat
             /\ IsFiniteSet(Spending(i)) /\ Cardinality(Spending(i)) \in Nat
  <1>1. ASSUME NEW S \in SUBSET Requests PROVE IsFiniteSet(S) /\ Cardinality(S) \in Nat
    BY PipelineAssumption, FS_Subset, FS_CardinalityType
  <1>2. InFlight \in SUBSET Requests /\ \A i : FiredBy(i) \in SUBSET Requests /\ Spending(i) \in SUBSET Requests
    BY DEF InFlight, FiredBy, Spending
  <1> QED BY <1>1, <1>2

\* At most MaxInFlight calls are in flight after a step.
LEMMA FlightBounded ==
    ASSUME Base, UsesInv, NEW r \in Requests, Only(r), Moves(r)
    PROVE  Cardinality(InFlight') <= MaxInFlight
  <1>1. MaxInFlight \in Nat /\ IsFiniteSet(InFlight) /\ Cardinality(InFlight) \in Nat
    BY PipelineAssumption, SetsAreFinite
  <1>2. CASE Arriving(r)
    <2>1. InFlight' \subseteq InFlight \union {r}
      BY DEF InFlight, Only
    <2>2. IsFiniteSet(InFlight \union {r}) /\ Cardinality(InFlight \union {r}) <= Cardinality(InFlight) + 1
          /\ Cardinality(InFlight \union {r}) \in Nat
      BY <1>1, FS_AddElement, FS_CardinalityType
    <2>3. Cardinality(InFlight') <= Cardinality(InFlight \union {r}) /\ Cardinality(InFlight') \in Nat
      <3>1. IsFiniteSet(InFlight')
        BY <2>1, <2>2, FS_Subset
      <3> QED BY <2>1, <2>2, <3>1, FS_Subset, FS_CardinalityType
    <2>4. Cardinality(InFlight) < MaxInFlight
      BY <1>2 DEF Arriving
    <2> QED BY <1>1, <2>2, <2>3, <2>4
  <1>3. CASE ~Arriving(r)
    <2>1. r \in InFlight
      <3>1. pc[r] \notin {"new", "done"}
        BY <1>3 DEF Moves, Deciding, Dismissing, Consuming, Applying, Replaying, Missing, Refusing,
           Working, Remembering, Recording
      <3> QED BY <3>1 DEF InFlight
    <2>2. InFlight' \subseteq InFlight
      BY <2>1 DEF InFlight, Only
    <2>3. Cardinality(InFlight') <= Cardinality(InFlight) /\ Cardinality(InFlight') \in Nat
      <3>1. IsFiniteSet(InFlight')
        BY <1>1, <2>2, FS_Subset
      <3> QED BY <1>1, <2>2, <3>1, FS_Subset, FS_CardinalityType
    <2> QED BY <1>1, <2>3 DEF UsesInv
  <1> QED BY <1>2, <1>3

\* A call's step and one rule: it spends a use, is on its way to, fires a rule
\* without a number, or leaves the rule's calls and uses as they were.
LEMMA UsesMove ==
    ASSUME Base, NEW r \in Requests, Only(r), Moves(r), NEW i \in RuleIds, rules'[i] # NoRule
    PROVE  /\ rules[i] # NoRule /\ granted'[i] = granted[i]
           /\ \/ /\ rules'[i] = Consumed(rules[i]) /\ r \in Spending(i) /\ r \notin FiredBy(i)
                 /\ FiredBy(i)' = FiredBy(i) \union {r} /\ Spending(i)' = Spending(i) \ {r}
              \/ rules'[i].left = rules[i].left /\ rules[i].left = Unlimited
              \/ /\ rules'[i].left = rules[i].left /\ FiredBy(i)' = FiredBy(i)
                 /\ rules[i].left > 0 \/ Spending(i)' \subseteq Spending(i)
  <1>1. rules[i] # NoRule /\ granted'[i] = granted[i] /\ rules[i] \in RuleRow
    BY TablesMove DEF Only, Base, Shaped
  <1>2. i # 0 /\ Placed(r)
    BY DEF RuleIds, Base
  <1>3. CASE Consuming(r) /\ loc[r].rule = i
    <2>1. rules'[i] = Consumed(rules[i])
      BY <1>3 DEF Consuming, Base, Shaped
    <2>2. r \in Spending(i) /\ r \notin FiredBy(i)
      BY <1>3 DEF Consuming, Spending, FiredBy
    <2>3. FiredBy(i)' = FiredBy(i) \union {r} /\ Spending(i)' = Spending(i) \ {r}
      BY <1>3 DEF Consuming, Spending, FiredBy, Only
    <2> QED BY <1>1, <2>1, <2>2, <2>3
  <1>4. CASE Deciding(r) /\ loc'[r].rule = i
    <2>1. rules' = rules /\ (rules[i].left = Unlimited \/ rules[i].left > 0)
          /\ (rules[i].left # Unlimited => pc'[r] = "consume") /\ loc[r].rule = 0
      BY <1>2, <1>4 DEF Deciding, tables, Placed
    <2>2. rules[i].left # Unlimited => FiredBy(i)' = FiredBy(i)
      BY <1>2, <2>1 DEF FiredBy, Only
    <2> QED BY <1>1, <2>1, <2>2
  <1>5. CASE ~(Consuming(r) /\ loc[r].rule = i) /\ ~(Deciding(r) /\ loc'[r].rule = i)
    <2>1. rules'[i].left = rules[i].left
      <3>1. CASE rules'[i] = rules[i]
        BY <3>1
      <3>2. CASE rules'[i] # rules[i]
        <4>1. Consuming(r) \/ Applying(r)
          BY <3>2, TablesMove
        <4>2. rules' = [rules EXCEPT ![loc[r].rule] = Consumed(@)]
              \/ rules' = [rules EXCEPT ![loc[r].rule] = Counted(@)]
          BY <3>2, <4>1 DEF Consuming, Applying, Counting
        <4>3. loc[r].rule = i
          BY <3>2, <4>2 DEF Base, Shaped
        <4>4. Counting(r) /\ rules' # rules
          BY <1>5, <3>2, <4>1, <4>3 DEF Applying
        <4>5. rules'[i] = Counted(rules[i])
          BY <4>3, <4>4 DEF Counting, Base, Shaped
        <4> QED BY <1>1, <4>5, CountedRow
      <3> QED BY <3>1, <3>2
    <2>2. /\ r \in Spending(i)' => r \in Spending(i)
          /\ (r \in FiredBy(i)') = (r \in FiredBy(i))
      <3>1. CASE Arriving(r)
        BY <1>2, <3>1, FreshIs DEF Arriving, SameRule, Spending, FiredBy, Placed
      <3>2. CASE Deciding(r)
        BY <1>2, <1>5, <3>2 DEF Deciding, Spending, FiredBy, Placed
      <3>3. CASE Dismissing(r)
        BY <1>2, <3>3 DEF Dismissing, Spending, FiredBy, Placed
      <3>4. CASE Consuming(r)
        BY <1>5, <3>4 DEF Consuming, Spending, FiredBy
      <3>5. CASE Applying(r) \/ Replaying(r) \/ Missing(r) \/ Refusing(r) \/ Working(r)
                 \/ Remembering(r) \/ Recording(r)
        <4>1. /\ pc[r] \notin {"new", "consume"} /\ pc'[r] \notin {"new", "consume"}
              /\ loc'[r].rule = loc[r].rule
          BY <3>5 DEF Applying, Replaying, Missing, Refusing, Working, Remembering, Recording,
             Delivering, SameRule
        <4> QED BY <4>1 DEF Spending, FiredBy
      <3> QED BY <3>1, <3>2, <3>3, <3>4, <3>5 DEF Moves
    <2>3. \A s \in Requests \ {r} : /\ (s \in Spending(i)') = (s \in Spending(i))
                                    /\ (s \in FiredBy(i)') = (s \in FiredBy(i))
      BY DEF Only, Spending, FiredBy
    <2>4. FiredBy(i)' = FiredBy(i) /\ Spending(i)' \subseteq Spending(i)
      <3>1. FiredBy(i)' \subseteq Requests /\ FiredBy(i) \subseteq Requests
            /\ Spending(i)' \subseteq Requests /\ Spending(i) \subseteq Requests
        BY DEF FiredBy, Spending
      <3> QED BY <2>2, <2>3, <3>1
    <2> QED BY <1>1, <2>1, <2>4
  <1> QED BY <1>3, <1>4, <1>5

\* A call's step keeps the count of uses.
LEMMA CallUses ==
    ASSUME Base, UsesInv, NEW r \in Requests, Only(r), Moves(r), NEW i \in RuleIds
    PROVE  UsesOf(i)'
  <1> SUFFICES ASSUME rules'[i] # NoRule, rules'[i].left # Unlimited
               PROVE  /\ rules'[i].left > 0 => Cardinality(FiredBy(i)') + rules'[i].left <= granted'[i]
                      /\ rules'[i].left = 0 => Cardinality(FiredBy(i)') + Cardinality(Spending(i)')
                                                 <= granted'[i] + MaxInFlight - 1
    BY DEF UsesOf
  <1>1. /\ rules[i] # NoRule /\ granted'[i] = granted[i] /\ granted[i] \in Nat
        /\ rules[i] \in RuleRow /\ rules[i].left \in Nat \union {Unlimited}
        /\ MaxInFlight \in Nat \ {0} /\ Unlimited \notin Nat
    BY UsesMove, PipelineAssumption DEF Base, Shaped, RuleRow
  <1>2. /\ IsFiniteSet(FiredBy(i)) /\ Cardinality(FiredBy(i)) \in Nat
        /\ IsFiniteSet(Spending(i)) /\ Cardinality(Spending(i)) \in Nat
        /\ IsFiniteSet(InFlight) /\ Cardinality(InFlight) \in Nat
    BY SetsAreFinite
  <1>3. /\ rules[i].left # Unlimited /\ rules[i].left > 0 =>
               Cardinality(FiredBy(i)) + rules[i].left <= granted[i]
        /\ rules[i].left = 0 => Cardinality(FiredBy(i)) + Cardinality(Spending(i))
                                   <= granted[i] + MaxInFlight - 1
        /\ Cardinality(InFlight) <= MaxInFlight
    BY <1>1 DEF UsesInv, UsesOf
  <1>4. CASE /\ rules'[i] = Consumed(rules[i]) /\ r \in Spending(i) /\ r \notin FiredBy(i)
             /\ FiredBy(i)' = FiredBy(i) \union {r} /\ Spending(i)' = Spending(i) \ {r}
    <2>1. Cardinality(FiredBy(i)') = Cardinality(FiredBy(i)) + 1
      BY <1>2, <1>4, FS_AddElement
    <2>2. Cardinality(Spending(i)') = Cardinality(Spending(i)) - 1
      BY <1>2, <1>4, FS_RemoveElement
    <2>3. Cardinality(Spending(i)') <= MaxInFlight - 1
      <3>1. Spending(i) \subseteq InFlight
        BY DEF Spending, InFlight
      <3>2. Cardinality(Spending(i)) <= Cardinality(InFlight)
        BY <1>2, <3>1, FS_Subset
      <3> QED BY <1>1, <1>2, <1>3, <2>2, <3>2
    <2>4. /\ rules[i].left # Unlimited
          /\ rules[i].left = 0 => rules'[i].left = 0
          /\ rules[i].left # 0 => rules'[i].left = rules[i].left - 1
      BY <1>1, <1>4, ConsumedRow
    <2>5. CASE rules[i].left = 0
      BY <1>1, <1>2, <1>3, <2>1, <2>2, <2>4, <2>5
    <2>6. CASE rules[i].left # 0
      <3>1. rules[i].left \in Nat /\ rules[i].left > 0 /\ rules'[i].left = rules[i].left - 1
        BY <1>1, <2>4, <2>6
      <3>2. Cardinality(FiredBy(i)) + rules[i].left <= granted[i]
        BY <1>3, <2>4, <3>1
      <3>3. Cardinality(FiredBy(i)') + rules'[i].left <= granted[i]
        BY <1>1, <1>2, <2>1, <3>1, <3>2
      <3>4. rules'[i].left = 0 => Cardinality(FiredBy(i)') <= granted[i]
        BY <1>1, <1>2, <2>1, <3>3
      <3>5. Cardinality(Spending(i)') \in Int /\ Cardinality(FiredBy(i)') \in Int
        BY <1>2, <2>1, <2>2
      <3>6. rules'[i].left = 0 => Cardinality(FiredBy(i)') + Cardinality(Spending(i)')
                                   <= granted[i] + MaxInFlight - 1
        BY <1>1, <2>3, <3>4, <3>5
      <3> QED BY <1>1, <3>3, <3>6
    <2> QED BY <2>5, <2>6
  <1>5. CASE /\ rules'[i].left = rules[i].left /\ FiredBy(i)' = FiredBy(i)
             /\ rules[i].left > 0 \/ Spending(i)' \subseteq Spending(i)
    <2>1. CASE rules[i].left > 0
      <3>1. rules[i].left # 0
        BY <1>1, <1>5, <2>1
      <3> QED BY <1>1, <1>3, <1>5, <2>1, <3>1
    <2>2. CASE Spending(i)' \subseteq Spending(i)
      <3>1. IsFiniteSet(Spending(i)')
        BY <1>2, <2>2, FS_Subset
      <3>2. Cardinality(Spending(i)') <= Cardinality(Spending(i)) /\ Cardinality(Spending(i)') \in Nat
        BY <1>2, <2>2, <3>1, FS_Subset, FS_CardinalityType
      <3> QED BY <1>1, <1>2, <1>3, <1>5, <3>2
    <2> QED BY <1>5, <2>1, <2>2
  <1>6. CASE rules'[i].left = rules[i].left /\ rules[i].left = Unlimited
    BY <1>6
  <1> QED BY <1>4, <1>5, <1>6, UsesMove

\* Initially a rule has the uses it was seeded with (RuleStore).
LEMMA InitUses == Init => UsesInv
  <1> SUFFICES ASSUME Init PROVE UsesInv
    OBVIOUS
  <1>1. pc = [r \in Requests |-> "new"] /\ MaxInFlight \in Nat \ {0}
    BY PipelineAssumption DEF Init
  <1>2. InFlight = {} /\ \A i : FiredBy(i) = {} /\ Spending(i) = {}
    BY <1>1 DEF InFlight, FiredBy, Spending
  <1>3. Cardinality({}) = 0
    BY FS_EmptySet
  <1>4. ASSUME NEW i \in RuleIds, rules[i] # NoRule, rules[i].left # Unlimited
        PROVE  granted[i] = rules[i].left /\ granted[i] \in Nat
    <2>1. rules[i] = IF i \in DOMAIN Seeded THEN Seeded[i] ELSE NoRule
      BY DEF Init
    <2>2. i \in DOMAIN Seeded /\ rules[i] = Seeded[i]
      BY <1>4, <2>1
    <2>3. granted[i] = Seeded[i].left
      BY <1>4, <2>2 DEF Init
    <2>4. granted[i] \in Nat
      BY InitBase DEF Base, Shaped
    <2> QED BY <2>2, <2>3, <2>4
  <1>5. ASSUME NEW i \in RuleIds PROVE UsesOf(i)
    <2> SUFFICES ASSUME rules[i] # NoRule, rules[i].left # Unlimited
                 PROVE  /\ Cardinality(FiredBy(i)) + rules[i].left <= granted[i]
                        /\ Cardinality(FiredBy(i)) + Cardinality(Spending(i))
                              <= granted[i] + MaxInFlight - 1
      BY DEF UsesOf
    <2>1. Cardinality(FiredBy(i)) = 0 /\ Cardinality(Spending(i)) = 0
      BY <1>2, <1>3
    <2> QED BY <1>1, <1>4, <2>1
  <1> QED BY <1>1, <1>2, <1>3, <1>5 DEF UsesInv

\* The end of the process keeps the count of uses.
LEMMA CrashUses ==
    ASSUME Base, UsesInv, Crash PROVE UsesInv'
  <1>1. rules' = rules /\ granted' = granted
    BY CrashDoes DEF Base
  <1>2. InFlight' = {} /\ \A i : Spending(i)' = {}
    BY CrashDoes DEF Base, Shaped, InFlight, Spending
  <1>3. ASSUME NEW i \in RuleIds PROVE FiredBy(i)' \subseteq FiredBy(i)
    <2> SUFFICES ASSUME NEW r \in Requests, loc'[r].rule = i, pc'[r] \notin {"consume", "new"}
                 PROVE  loc[r].rule = i /\ pc[r] \notin {"consume", "new"}
      BY DEF FiredBy
    <2>1. i # 0
      BY DEF RuleIds
    <2>2. CASE r \in InFlight
      BY <2>1, <2>2, CrashDoes DEF Base, InFlight
    <2>3. CASE r \notin InFlight
      BY <2>3, CrashDoes DEF Base
    <2> QED BY <2>2, <2>3
  <1>4. Cardinality({}) = 0 /\ MaxInFlight \in Nat \ {0}
    BY FS_EmptySet, PipelineAssumption
  <1>5. ASSUME NEW i \in RuleIds PROVE UsesOf(i)'
    <2>1. /\ Cardinality(FiredBy(i)) \in Nat /\ Cardinality(Spending(i)) \in Nat
          /\ Cardinality(FiredBy(i)') <= Cardinality(FiredBy(i)) /\ Cardinality(FiredBy(i)') \in Nat
      <3>1. IsFiniteSet(FiredBy(i)')
        BY <1>3, SetsAreFinite, FS_Subset
      <3> QED BY <1>3, <3>1, SetsAreFinite, FS_Subset, FS_CardinalityType
    <2>2. granted[i] \in Nat /\ UsesOf(i)
          /\ (rules[i] # NoRule => rules[i].left \in Nat \union {Unlimited})
      BY DEF Base, Shaped, UsesInv, RuleRow
    <2>3. Cardinality(Spending(i)') = 0
      BY <1>2, <1>4
    <2> QED BY <1>1, <1>4, <2>1, <2>2, <2>3 DEF UsesOf
  <1> QED BY <1>2, <1>4, <1>5 DEF UsesInv

\* An edit keeps the count of uses.
LEMMA ConsoleUses ==
    ASSUME Base, UsesInv, RulesEdited, UNCHANGED <<pc, loc>> PROVE UsesInv'
  <1>1. InFlight' = InFlight /\ \A i : FiredBy(i)' = FiredBy(i) /\ Spending(i)' = Spending(i)
    BY DEF InFlight, FiredBy, Spending
  <1>2. Unlimited \notin Nat
    BY PipelineAssumption
  <1>3. ASSUME NEW i \in RuleIds, rules'[i] = rules[i], granted'[i] = granted[i] PROVE UsesOf(i)'
    BY <1>1, <1>3 DEF UsesInv, UsesOf
  <1>4. ASSUME NEW i \in RuleIds, rules'[i] = NoRule PROVE UsesOf(i)'
    BY <1>4 DEF UsesOf
  <1>5. CASE UNCHANGED <<rules, nextRule, log, granted>>
    BY <1>1, <1>3, <1>5 DEF UsesInv
  <1>6. ASSUME NEW f \in Forms, CreateRule(f) PROVE UsesInv'
    <2>1. PICK gone : /\ rules' = [i \in RuleIds |-> IF i = nextRule THEN Inserted(f)
                                       ELSE IF i \in gone THEN NoRule ELSE rules[i]]
                      /\ granted' = [granted EXCEPT ![nextRule] = IF f.left = Unlimited THEN 0 ELSE f.left]
                      /\ nextRule \in RuleIds
      BY <1>6 DEF CreateRule
    <2>2. Inserted(f).left = f.left /\ f.left \in (Nat \ {0}) \union {Unlimited}
      BY InsertedRow
    <2>3. PICK n \in RuleIds : n = nextRule
      BY <2>1
    <2>4. UsesOf(n)'
      <3>1. FiredBy(n) = {}
        BY <2>3 DEF FiredBy, Base, Placed, RuleIds
      <3>2. Cardinality(FiredBy(n)') = 0
        BY <1>1, <3>1, FS_EmptySet
      <3>3. rules'[n].left = f.left /\ (f.left # Unlimited => granted'[n] = f.left)
        BY <2>1, <2>2, <2>3 DEF Base, Shaped
      <3> QED
        BY <2>2, <3>2, <3>3 DEF UsesOf
    <2>5. \A i \in RuleIds : UsesOf(i)'
      <3> TAKE i \in RuleIds
      <3>1. CASE i = n
        BY <2>4, <3>1
      <3>2. CASE i # n
        <4>1. rules'[i] = NoRule \/ (rules'[i] = rules[i] /\ granted'[i] = granted[i])
          BY <2>1, <2>3, <3>2 DEF Base, Shaped
        <4> QED BY <1>3, <1>4, <4>1
      <3> QED BY <3>1, <3>2
    <2> QED BY <1>1, <2>5 DEF UsesInv
  <1>7. ASSUME NEW i \in RuleIds, NEW f \in Forms, UpdateRule(i, f), rules[i] # NoRule PROVE UsesInv'
    <2>1. /\ rules' = [rules EXCEPT ![i] = Updated(@, f)]
          /\ granted' = [granted EXCEPT ![i] = IF f.left = Unlimited THEN 0 ELSE Fired(i) + f.left]
      BY <1>7 DEF UpdateRule
    <2>2. rules[i] \in RuleRow /\ f.left \in (Nat \ {0}) \union {Unlimited}
      BY <1>7, InsertedRow DEF Base, Shaped
    <2>3. rules'[i].left = f.left /\ (f.left # Unlimited => granted'[i] = Fired(i) + f.left)
      BY <2>1, <2>2, UpdatedRow DEF Base, Shaped
    <2>4. Cardinality(FiredBy(i)') = Fired(i) /\ Fired(i) \in Nat
      BY <1>1, FiredIsCounted DEF FiredBy, Fired
    <2>5. UsesOf(i)'
      BY <2>2, <2>3, <2>4 DEF UsesOf
    <2>6. ASSUME NEW j \in RuleIds, j # i PROVE UsesOf(j)'
      BY <1>3, <2>1, <2>6 DEF Base, Shaped
    <2> QED BY <1>1, <2>5, <2>6 DEF UsesInv
  <1>8. ASSUME NEW i \in RuleIds, ToggleRule(i), rules[i] # NoRule PROVE UsesInv'
    <2>1. rules' = [rules EXCEPT ![i] = [rules[i] EXCEPT !.enabled = ~@]] /\ granted' = granted
      BY <1>8 DEF ToggleRule
    <2>2. rules[i] \in RuleRow /\ rules[i].enabled \in BOOLEAN
      BY <1>8 DEF Base, Shaped, RuleRow
    <2>3. rules'[i].left = rules[i].left
      <3>1. [rules[i] EXCEPT !.enabled = ~@].left = rules[i].left
        BY <2>2, EnabledSet
      <3> QED BY <2>1, <3>1 DEF Base, Shaped
    <2>4. UsesOf(i)'
      BY <1>1, <1>8, <2>1, <2>3 DEF UsesInv, UsesOf
    <2>5. ASSUME NEW j \in RuleIds, j # i PROVE UsesOf(j)'
      BY <1>3, <2>1, <2>5 DEF Base, Shaped
    <2> QED BY <1>1, <2>4, <2>5 DEF UsesInv
  <1>9. ASSUME NEW i \in RuleIds, DeleteRule(i) PROVE UsesInv'
    <2>1. rules' = [rules EXCEPT ![i] = NoRule] /\ granted' = granted
      BY <1>9 DEF DeleteRule
    <2>2. ASSUME NEW j \in RuleIds PROVE UsesOf(j)'
      <3>1. rules'[j] = NoRule \/ (rules'[j] = rules[j] /\ granted'[j] = granted[j])
        BY <2>1 DEF Base, Shaped
      <3> QED BY <1>3, <1>4, <3>1
    <2> QED BY <1>1, <2>2 DEF UsesInv
  <1> QED BY <1>5, <1>6, <1>7, <1>8, <1>9 DEF RulesEdited

\* Every step keeps the uses fired and left within those given and in flight.
LEMMA StepUses == Base /\ UsesInv /\ [Next]_vars => UsesInv'
  <1> SUFFICES ASSUME Base, UsesInv, [Next]_vars PROVE UsesInv'
    OBVIOUS
  <1>1. ASSUME NEW r \in Requests, Only(r), Moves(r) PROVE UsesInv'
    BY <1>1, FlightBounded, CallUses DEF UsesInv
  <1>2. ASSUME Console PROVE UsesInv'
    BY <1>2, ConsoleDoes, ConsoleUses DEF Base
  <1>3. ASSUME Tick \/ UNCHANGED vars PROVE UsesInv'
    <2>1. UNCHANGED <<rules, granted, pc, loc>>
      BY <1>3 DEF Tick, vars, tables
    <2> QED BY <2>1 DEF UsesInv, UsesOf, FiredBy, Spending, InFlight
  <1> QED BY <1>1, <1>2, <1>3, StepIs, CrashUses

\* In every reachable state, a rule with a number of uses fired that often and at most
\* once more for every other call in flight, however it was edited or switched
\* (RuleStore.Consume, Rule.Exhausted, Engine.Evaluate).
THEOREM UsesAreBounded == Spec => []UsesBounded
  <1>1. ASSUME Base, UsesInv PROVE UsesBounded
    <2> SUFFICES ASSUME NEW i \in RuleIds, rules[i] # NoRule, rules[i].left # Unlimited
                 PROVE  Fired(i) <= granted[i] + MaxInFlight - 1
      BY DEF UsesBounded
    <2>1. /\ rules[i].left \in Nat /\ granted[i] \in Nat /\ MaxInFlight \in Nat \ {0}
      BY <1>1, PipelineAssumption DEF Base, Shaped, RuleRow
    <2>2. Fired(i) = Cardinality(FiredBy(i)) /\ Fired(i) \in Nat /\ Cardinality(Spending(i)) \in Nat
      BY SetsAreFinite DEF Fired, FiredBy
    <2>3. UsesOf(i)
      BY <1>1 DEF UsesInv
    <2>4. CASE rules[i].left = 0
      BY <2>1, <2>2, <2>3, <2>4 DEF UsesOf
    <2>5. CASE rules[i].left > 0
      BY <2>1, <2>2, <2>3, <2>5 DEF UsesOf
    <2> QED BY <2>1, <2>4, <2>5
  <1> QED BY <1>1, InitUses, StepUses, BaseHolds, PTL DEF Spec

-----------------------------------------------------------------------------
(* The log.  A call that was shaped on purpose names its rule, unless something *)
(* failed; its entry names the same rule until that rule's row is gone.         *)
LogInv ==
    failures = 0 => \A r \in Requests :
        /\ Faulted(loc[r].act) => loc[r].rule # 0
        /\ pc[r] = "done" /\ Reached(r) =>
             /\ log[r] = NoEntry => Faulted(loc[r].act) /\ rules[loc[r].rule] = NoRule
             /\ log[r] # NoEntry =>
                  /\ log[r].rule # 0 => Faulted(loc[r].act) /\ log[r].rule = loc[r].rule
                  /\ Faulted(loc[r].act) /\ log[r].rule = 0 => rules[loc[r].rule] = NoRule

\* A call's step keeps the log true.
LEMMA CallLog ==
    ASSUME Base, LogInv, NEW r \in Requests, Only(r), Moves(r) PROVE LogInv'
  <1> SUFFICES ASSUME failures' = 0, NEW s \in Requests
               PROVE  /\ Faulted(loc'[s].act) => loc'[s].rule # 0
                      /\ pc'[s] = "done" /\ Reached(s)' =>
                           /\ log'[s] = NoEntry => Faulted(loc'[s].act) /\ rules'[loc'[s].rule] = NoRule
                           /\ log'[s] # NoEntry =>
                                /\ log'[s].rule # 0 => Faulted(loc'[s].act) /\ log'[s].rule = loc'[s].rule
                                /\ Faulted(loc'[s].act) /\ log'[s].rule = 0 => rules'[loc'[s].rule] = NoRule
    BY DEF LogInv
  <1>1. failures = 0
    BY DEF Only, Base, Shaped
  <1>2. /\ Faulted(loc[s].act) => loc[s].rule # 0
        /\ loc[s].rule \in RuleIds \union {0}
    BY <1>1 DEF LogInv, Base, Shaped, Held
  <1>3. CASE s # r
    <2>1. pc'[s] = pc[s] /\ loc'[s] = loc[s] /\ log'[s] = log[s] /\ (Reached(s)' <=> Reached(s))
      BY <1>3, TablesMove DEF Only, Reached
    <2>2. Faulted(loc[s].act) /\ rules[loc[s].rule] = NoRule => rules'[loc[s].rule] = NoRule
      BY <1>2, TablesMove
    <2>3. pc[s] = "done" /\ Reached(s) =>
             /\ log[s] = NoEntry => Faulted(loc[s].act) /\ rules[loc[s].rule] = NoRule
             /\ log[s] # NoEntry =>
                  /\ log[s].rule # 0 => Faulted(loc[s].act) /\ log[s].rule = loc[s].rule
                  /\ Faulted(loc[s].act) /\ log[s].rule = 0 => rules[loc[s].rule] = NoRule
      BY <1>1 DEF LogInv
    <2> QED BY <1>2, <2>1, <2>2, <2>3
  <1>4. CASE s = r
    <2>1. Faulted(loc'[r].act) => loc'[r].rule # 0
      <3>1. ~Faulted("none")
        BY DEF Faulted
      <3>2. CASE Arriving(r)
        BY <3>1, <3>2, FreshIs DEF Arriving, SameRule
      <3>3. CASE Deciding(r) \/ Dismissing(r)
        BY <3>1, <3>3 DEF Deciding, Dismissing
      <3>4. CASE ~Arriving(r) /\ ~(Deciding(r) \/ Dismissing(r))
        <4>1. loc'[r].rule = loc[r].rule /\ loc'[r].act = loc[r].act
          BY <3>4 DEF Moves, Consuming, Applying, Replaying, Missing, Refusing, Working,
             Remembering, Recording, SameRule
        <4> QED BY <1>2, <1>4, <4>1
      <3> QED BY <3>2, <3>3, <3>4
    <2>2. CASE Arriving(r)
      <3>1. loc'[r].seen = 0 /\ loc'[r].rule = 0
        BY <2>2, FreshIs DEF Arriving, SameRule
      <3>2. ~Reached(r)'
        BY <3>1 DEF Reached
      <3> QED BY <1>4, <2>1, <3>2
    <2>3. CASE Recording(r)
      <3> DEFINE refused == Entry(r).rule # 0 /\ rules[loc[r].rule] = NoRule
      <3>1. log[r] = NoEntry /\ log \in [Requests -> EntryRow \union {NoEntry}]
        BY <2>3 DEF Recording, Base, Placed, Shaped
      <3>2. log' = [log EXCEPT ![r] = IF refused THEN @ ELSE Entry(r)]
        BY <2>3 DEF Recording
      <3>3. log'[r] = IF refused THEN NoEntry ELSE Entry(r)
        BY <3>1, <3>2
      <3>4. Entry(r).rule = IF Faulted(loc[r].act) THEN loc[r].rule ELSE 0
        BY DEF Entry
      <3>5. Entry(r) # NoEntry
        <4>1. loc[r].rule \in RuleIds \union {0}
              /\ loc[r].answer.kind \in {"none", "refusal", "status", "fault", "broken", "dropped",
                                         "result", "lost"}
          BY DEF Base, Shaped, Held, Answers
        <4>2. Entry(r) \in EntryRow
          BY <4>1 DEF Entry, EntryRow
        <4> QED BY <4>2, PipelineAssumption
      <3>6. rules' = rules /\ loc'[r] = loc[r]
        BY <2>3 DEF Recording
      <3>7. CASE refused
        BY <1>4, <2>1, <3>3, <3>4, <3>6, <3>7
      <3>8. CASE ~refused
        <4>1. log'[r] = Entry(r)
          BY <3>3, <3>8
        <4> QED BY <1>2, <1>4, <2>1, <3>4, <3>5, <3>6, <4>1
      <3> QED BY <3>7, <3>8
    <2>4. CASE ~Arriving(r) /\ ~Recording(r)
      <3>1. pc'[r] # "done"
        BY <2>4 DEF Moves, Deciding, Dismissing, Consuming, Applying, Replaying, Missing, Refusing,
           Working, Remembering, Delivering
      <3> QED BY <1>4, <2>1, <3>1
    <2> QED BY <2>2, <2>3, <2>4
  <1> QED BY <1>3, <1>4

\* The rows that went with an edit, and the entries that named them.
Gone(gone) ==
    /\ \A i \in RuleIds : rules[i] = NoRule /\ i # nextRule => rules'[i] = NoRule
    /\ \A i \in gone : rules'[i] = NoRule
    /\ \A r \in Requests :
          /\ log'[r] = NoEntry <=> log[r] = NoEntry
          /\ log[r] # NoEntry => log'[r].rule = IF log[r].rule \in gone THEN 0 ELSE log[r].rule

\* Entries of a rule that goes are unmarked.
LEMMA RowsGo ==
    ASSUME Base, RulesEdited PROVE \E gone \in SUBSET RuleIds : Gone(gone)
  <1>1. CASE UNCHANGED <<rules, nextRule, log, granted>>
    <2>1. Gone({})
      BY <1>1 DEF Gone
    <2> QED BY <2>1
  <1>2. ASSUME NEW f \in Forms, CreateRule(f) PROVE \E gone \in SUBSET RuleIds : Gone(gone)
    <2> DEFINE same == {i \in RuleIds : /\ rules[i] # NoRule /\ ~rules[i].profile
                                        /\ rules[i].service = f.service /\ rules[i].stand = f.stand
                                        /\ rules[i].methods = f.methods}
    <2>1. /\ rules' = [i \in RuleIds |-> IF i = nextRule THEN Inserted(f)
                           ELSE IF i \in same THEN NoRule ELSE rules[i]]
          /\ log' = Unmarked(same)
      BY <1>2 DEF CreateRule
    <2>2. \A i \in same : i \in RuleIds /\ i # nextRule
      BY DEF Base, RuleIds, Shaped
    <2>3. same \in SUBSET RuleIds
      OBVIOUS
    <2> HIDE DEF same
    <2>4. Gone(same)
      BY <2>1, <2>2, UnmarkedIs DEF Gone, Base
    <2> QED BY <2>3, <2>4
  <1>3. ASSUME NEW i \in RuleIds, rules[i] # NoRule,
               (\E f \in Forms : UpdateRule(i, f)) \/ ToggleRule(i)
        PROVE  \E gone \in SUBSET RuleIds : Gone(gone)
    <2>1. log' = log /\ \A j \in RuleIds \ {i} : rules'[j] = rules[j]
      BY <1>3 DEF UpdateRule, ToggleRule, Base, Shaped
    <2>2. Gone({})
      BY <1>3, <2>1 DEF Gone
    <2> QED BY <2>2
  <1>4. ASSUME NEW i \in RuleIds, DeleteRule(i) PROVE \E gone \in SUBSET RuleIds : Gone(gone)
    <2>1. rules' = [rules EXCEPT ![i] = NoRule] /\ log' = Unmarked({i})
      BY <1>4 DEF DeleteRule
    <2>2. Gone({i})
      BY <2>1, UnmarkedIs DEF Gone, Base, Shaped
    <2> QED BY <2>2
  <1> QED BY <1>1, <1>2, <1>3, <1>4 DEF RulesEdited

\* An edit keeps the log true.
LEMMA ConsoleLog ==
    ASSUME Base, LogInv, RulesEdited, UNCHANGED <<pc, loc, failures>> PROVE LogInv'
  <1>1. PICK gone \in SUBSET RuleIds : Gone(gone)
    BY RowsGo
  <1> SUFFICES ASSUME failures = 0, NEW r \in Requests
               PROVE  /\ Faulted(loc[r].act) => loc[r].rule # 0
                      /\ pc[r] = "done" /\ Reached(r) =>
                           /\ log'[r] = NoEntry => Faulted(loc[r].act) /\ rules'[loc[r].rule] = NoRule
                           /\ log'[r] # NoEntry =>
                                /\ log'[r].rule # 0 => Faulted(loc[r].act) /\ log'[r].rule = loc[r].rule
                                /\ Faulted(loc[r].act) /\ log'[r].rule = 0 => rules'[loc[r].rule] = NoRule
    BY DEF LogInv, Reached
  <1>2. /\ Faulted(loc[r].act) => loc[r].rule # 0
        /\ loc[r].rule \in RuleIds \union {0} /\ loc[r].rule < nextRule /\ nextRule \in Nat
        /\ loc[r].rule # nextRule
    BY DEF LogInv, Base, Shaped, Held, Placed, RuleIds
  <1>3. Faulted(loc[r].act) /\ rules[loc[r].rule] = NoRule => rules'[loc[r].rule] = NoRule
    BY <1>1, <1>2 DEF Gone
  <1>4. pc[r] = "done" /\ Reached(r) =>
             /\ log[r] = NoEntry => Faulted(loc[r].act) /\ rules[loc[r].rule] = NoRule
             /\ log[r] # NoEntry =>
                  /\ log[r].rule # 0 => Faulted(loc[r].act) /\ log[r].rule = loc[r].rule
                  /\ Faulted(loc[r].act) /\ log[r].rule = 0 => rules[loc[r].rule] = NoRule
    BY DEF LogInv
  <1>5. /\ log'[r] = NoEntry <=> log[r] = NoEntry
        /\ log[r] # NoEntry => log'[r].rule = IF log[r].rule \in gone THEN 0 ELSE log[r].rule
        /\ log[r].rule \in gone => rules'[log[r].rule] = NoRule
    BY <1>1 DEF Gone
  <1> QED BY <1>2, <1>3, <1>4, <1>5

\* Initially the log is empty (Recorder).
LEMMA InitLog == Init => LogInv
  BY FreshIs DEF Init, LogInv, Faulted

\* Every step keeps the log true: calls, edits, failures.
LEMMA StepLog == Base /\ LogInv /\ [Next]_vars => LogInv'
  <1> SUFFICES ASSUME Base, LogInv, [Next]_vars PROVE LogInv'
    OBVIOUS
  <1>1. ASSUME Crash PROVE LogInv'
    BY <1>1, CrashDoes DEF Base, LogInv
  <1>2. ASSUME Console PROVE LogInv'
    BY <1>2, ConsoleDoes, ConsoleLog DEF Base
  <1>3. ASSUME Tick \/ UNCHANGED vars PROVE LogInv'
    <2>1. UNCHANGED <<rules, log, pc, loc, failures>>
      BY <1>3 DEF Tick, vars, tables
    <2> QED BY <2>1 DEF LogInv, Reached
  <1> QED BY <1>1, <1>2, <1>3, StepIs, CallLog

\* In every reachable state, every answer given behind the allowlist has its entry, and
\* the entry tells a deliberate failure from a real one as long as the rule's row is
\* there (TrafficMiddleware.record, ReportFiredRule, the foreign key of request_log).
THEOREM LogIsTrue == Spec => []LogTellsTheTruth
  <1>1. LogInv => LogTellsTheTruth
    BY DEF LogInv, LogTellsTheTruth
  <1> QED BY <1>1, InitLog, StepLog, BaseHolds, PTL DEF Spec
=============================================================================

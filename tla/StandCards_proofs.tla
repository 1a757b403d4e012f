-------------------------- MODULE StandCards_proofs --------------------------
(* What is proved of StandCards, for every schedule.  An id is given out once, so *)
(* whatever stale copy a call holds of a card is a copy of that card or of one     *)
(* that is gone; and what makes a copy true - that the card was proved, that its    *)
(* code was sent - never stops being true while the card is there.                  *)
EXTENDS StandCards, FiniteSetTheorems, WellFoundedInduction, TLAPS

Ask == [kind : {"create", "add"}, register : Registers, number : Numbers]

Steps == {"idle", "insert", "issue", "act", "store"}

\* A code that waits was sent with the window of the stand, and is remembered as
\* sent for as long as the window lasts.
CodeSent(i, code) ==
    code # NoCode =>
        /\ code.wait = Window(VerifyWait) /\ code.at <= now
        /\ now - code.at <= Window(VerifyWait) => <<code.at, code.value>> \in sent[i]

\* What a copy of a card that is still there says of it.
CopyTrue(i, card) ==
    i \in Rows => (card.verify => i \in proved) /\ CodeSent(i, card.code)

Typed ==
    /\ group \in [Registers -> Groups \union {NoGroup}] /\ live \subseteq Registers
    /\ cards \in [Slots -> CardRow \union {NoCard}]
    /\ serial \in 0..MaxCards /\ \A i \in Rows : i <= serial
    /\ tokens \in [Slots -> SUBSET Registers] /\ own \in SUBSET Slots /\ blocks \in [Slots -> SUBSET Registers]
    /\ now \in Nat /\ sent \in [Slots -> SUBSET (Nat \X Issued)]
    /\ at \in [Callers -> Steps] /\ loc = [c \in Callers |-> loc[c]]

RowsKept ==
    \A i \in Rows : /\ cards[i].home \in live /\ cards[i].key = MerchantOf(cards[i].home)
                    /\ CopyTrue(i, cards[i])

Distinct ==
    \A i, j \in Rows : cards[i].key = cards[j].key /\ cards[i].number = cards[j].number => i = j

TokensKept ==
    /\ \A i \in Slots : tokens[i] \union blocks[i] \subseteq live
    /\ \A i \in Slots \ Rows : tokens[i] = {} /\ blocks[i] = {}

\* What a call holds at each step.
CallKept(c) ==
    /\ at[c] \in {"insert", "issue"} => loc[c].ask \in Ask
    /\ at[c] \in {"issue", "act", "store"} => loc[c].id \in 1..serial
    /\ at[c] = "issue" =>
          /\ loc[c].id \in Rows => cards[loc[c].id].number = loc[c].ask.number
          /\ loc[c].id \in Rows /\ loc[c].card = NoCard =>
                cards[loc[c].id].home = loc[c].ask.register
          /\ loc[c].card # NoCard => /\ loc[c].ask.kind = "create"
                                     /\ loc[c].card \in CardRow /\ CopyTrue(loc[c].id, loc[c].card)
    /\ at[c] \in {"act", "store"} => loc[c].card \in CardRow /\ CopyTrue(loc[c].id, loc[c].card)

CallsKept == \A c \in Callers : CallKept(c)

\* Where the home of a card holds another token than the row's, a call answered that.
Honoured ==
    /\ \A t \in handed : /\ t.card \in Rows /\ t.register \in tokens[t.card]
                         /\ cards[t.card].number = t.number
                         /\ \/ t.own = TRUE /\ cards[t.card].home = t.register
                            \/ t.own = FALSE /\ ~IsOwn(t.card, t.register)
    /\ \A i \in own : i \in Rows /\ cards[i].home \in tokens[i]
    /\ \A i \in Rows \ own : cards[i].home \in tokens[i] =>
          \E u \in handed : u.card = i /\ u.register = cards[i].home /\ u.own = FALSE

Inv == Typed /\ RowsKept /\ Distinct /\ TokensKept /\ CallsKept /\ Honoured

-----------------------------------------------------------------------------
(* What a step of one call, or of the console, may do to what other calls hold.  *)

\* Ids are never reused, numbers never change, and what was proved or sent stays so.
Evolves ==
    /\ serial <= serial' /\ now <= now'
    /\ \A i \in Rows' : i <= serial =>
          /\ i \in Rows /\ cards'[i].number = cards[i].number /\ cards'[i].home = cards[i].home
          /\ (i \in proved => i \in proved')
    /\ \A i \in Slots : \A s \in sent[i] : now' - s[1] <= Window(VerifyWait) => s \in sent'[i]

\* Only call c moved.
Moved(c) ==
    /\ at' \in [Callers -> Steps] /\ loc' = [d \in Callers |-> loc'[d]]
    /\ \A d \in Callers \ {c} : at'[d] = at[d] /\ loc'[d] = loc[d]

(* A set of ids has a least one.                                                *)
LEMMA LeastExists ==
    ASSUME NEW S \in SUBSET Nat, S # {} PROVE \E m \in S : \A k \in S : m <= k
  <1>1. PICK m \in S : \A k \in S : ~(<<k, m>> \in OpToRel(<, Nat))
    BY NatLessThanWellFounded, WFMin
  <1>2. \A k \in S : ~(k < m)
    BY <1>1 DEF OpToRel
  <1> QED BY <1>2

(* The window of a stand is a positive number of moments, whatever its profile has *)
(* (Window, the default when the profile sets none).                            *)
LEMMA WindowIsPositive == Window(VerifyWait) \in Nat \ {0}
  BY CardsAssumption DEF Window

(* Where a call goes next, and that no other call moves with it.                *)
LEMMA GoesTo ==
    ASSUME NEW c \in Callers, NEW next \in Steps, NEW ask, NEW id, NEW card,
           at \in [Callers -> Steps], loc = [d \in Callers |-> loc[d]],
           Goto(c, next, ask, id, card)
    PROVE  Moved(c) /\ at'[c] = next /\ loc'[c] = [ask |-> ask, id |-> id, card |-> card]
  BY DEF Goto, Moved

(* A true copy of a card stays true as the tables evolve.                        *)
LEMMA CopyStaysTrue ==
    ASSUME Typed, now' \in Nat, Evolves,
           NEW i \in 1..serial, NEW card \in CardRow, CopyTrue(i, card)
    PROVE  CopyTrue(i, card)'
  <1> SUFFICES ASSUME i \in Rows'
               PROVE  (card.verify => i \in proved') /\ CodeSent(i, card.code)'
    BY DEF CopyTrue
  <1>1. i \in Rows /\ i \in Slots /\ (i \in proved => i \in proved')
    BY DEF Typed, Evolves, Slots, Rows
  <1>2. card.verify => i \in proved'
    BY <1>1 DEF CopyTrue
  <1>3. CodeSent(i, card.code)'
    <2> SUFFICES ASSUME card.code # NoCode PROVE CodeSent(i, card.code)'
      BY DEF CodeSent
    <2>1. card.code \in Code
      BY DEF CardRow
    <2>2. CodeSent(i, card.code)
      BY <1>1 DEF CopyTrue
    <2>3. card.code.at \in Nat /\ card.code.at <= now /\ card.code.wait = Window(VerifyWait)
      BY <2>1, <2>2 DEF CodeSent, Code
    <2>4. ASSUME now' - card.code.at <= Window(VerifyWait)
          PROVE  <<card.code.at, card.code.value>> \in sent'[i]
      <3>1. now - card.code.at <= Window(VerifyWait)
        BY <2>3, <2>4, WindowIsPositive DEF Typed, Evolves
      <3>2. <<card.code.at, card.code.value>> \in sent[i]
        BY <3>1, <2>2 DEF CodeSent
      <3> QED BY <3>2, <2>4, <1>1 DEF Evolves
    <2>5. card.code.at <= now'
      BY <2>3 DEF Typed, Evolves
    <2> QED BY <2>3, <2>4, <2>5 DEF CodeSent
  <1> QED BY <1>2, <1>3

(* What a call holds stays true while others move.                              *)
LEMMA OthersKept ==
    ASSUME Typed, Typed', Evolves, NEW d \in Callers, CallKept(d),
           at'[d] = at[d], loc'[d] = loc[d]
    PROVE  CallKept(d)'
  <1>1. at[d] \in {"issue", "act", "store"} => loc[d].id \in 1..serial /\ loc[d].id \in 1..serial'
    BY DEF CallKept, Typed, Evolves, Slots
  <1>2. ASSUME at[d] \in {"issue", "act", "store"}, loc[d].card \in CardRow,
               CopyTrue(loc[d].id, loc[d].card)
        PROVE  CopyTrue(loc[d].id, loc[d].card)'
    <2>1. PICK i \in 1..serial, card \in CardRow : i = loc[d].id /\ card = loc[d].card
      BY <1>1, <1>2
    <2>2. CopyTrue(i, card)
      BY <1>2, <2>1
    <2>3. CopyTrue(i, card)'
      BY <2>2, CopyStaysTrue DEF Typed
    <2> QED BY <2>1, <2>3
  <1> QED BY <1>1, <1>2 DEF CallKept, Typed, Evolves
(* The other calls keep what they hold when one moves.                          *)
LEMMA CallsKeptBy ==
    ASSUME Typed, Typed', Evolves, CallsKept, NEW c \in Callers, Moved(c), CallKept(c)'
    PROVE  CallsKept'
  <1> SUFFICES ASSUME NEW d \in Callers, d # c PROVE CallKept(d)'
    BY DEF CallsKept
  <1> QED BY OthersKept DEF CallsKept, Moved

(* What was answered goes on standing when no token, home or number moves.       *)
LEMMA HonouredStays ==
    ASSUME Inv, Rows \subseteq Rows', UNCHANGED <<tokens, own, handed>>,
           \A i \in Rows : cards'[i].home = cards[i].home /\ cards'[i].number = cards[i].number
    PROVE  Honoured'
  <1>1. ASSUME NEW t \in handed
        PROVE  /\ t.card \in Rows' /\ t.register \in tokens'[t.card]
               /\ cards'[t.card].number = t.number
               /\ \/ t.own = TRUE /\ cards'[t.card].home = t.register
                  \/ t.own = FALSE /\ ~IsOwn(t.card, t.register)'
    BY DEF Inv, Honoured, IsOwn
  <1>2. \A i \in own' : i \in Rows' /\ cards'[i].home \in tokens'[i]
    BY DEF Inv, Honoured
  <1>3. ASSUME NEW i \in Rows' \ own', cards'[i].home \in tokens'[i]
        PROVE  \E u \in handed' : u.card = i /\ u.register = cards'[i].home /\ u.own = FALSE
    <2>1. i \in Rows
      BY <1>3 DEF Inv, TokensKept, Rows
    <2> QED BY <1>3, <2>1 DEF Inv, Honoured
  <1> QED BY <1>1, <1>2, <1>3 DEF Honoured

(* A step of a call that writes no table keeps the invariant if it keeps what the *)
(* call holds: it may only add to what was sent and proved.                     *)
LEMMA ReadingStep ==
    ASSUME Inv, NEW c \in Callers, Moved(c), CallKept(c)',
           UNCHANGED <<tables, now, handed>>,
           proved \subseteq proved', sent' \in [Slots -> SUBSET (Nat \X Issued)],
           \A i \in Slots : sent[i] \subseteq sent'[i]
    PROVE  Inv'
  <1> USE DEF tables
  <1>1. Typed'
    BY DEF Inv, Typed, Moved, Rows
  <1>2. Evolves
    BY DEF Inv, Typed, Evolves, Rows
  <1>3. RowsKept'
    <2> SUFFICES ASSUME NEW i \in Rows PROVE RowsKept!(i)'
      BY DEF RowsKept, Rows
    <2>1. cards[i] \in CardRow /\ i \in 1..serial /\ CopyTrue(i, cards[i])
      BY DEF Inv, Typed, Rows, RowsKept, Slots
    <2>2. PICK card \in CardRow : card = cards[i]
      BY <2>1
    <2>3. CopyTrue(i, card)'
      BY <2>1, <2>2, <1>1, <1>2, CopyStaysTrue DEF Inv, Typed
    <2>4. CopyTrue(i, cards[i])'
      BY <2>2, <2>3
    <2> QED BY <2>4 DEF Inv, RowsKept, MerchantOf
  <1>4. Distinct' /\ TokensKept' /\ Honoured'
    BY HonouredStays DEF Inv, Distinct, TokensKept, Rows
  <1>5. CallsKept'
    BY <1>1, <1>2, CallsKeptBy DEF Inv
  <1> QED BY <1>1, <1>3, <1>4, <1>5 DEF Inv

(* The steps of a call that only move it.                                       *)
LEMMA OnlyMoves ==
    ASSUME Inv, NEW c \in Callers, NEW next \in Steps, NEW ask, NEW id, NEW card,
           Goto(c, next, ask, id, card),
           UNCHANGED <<tables, now, sent, proved, handed>>,
           next \in {"insert", "issue"} => ask \in Ask,
           next \in {"issue", "act", "store"} => id \in 1..serial,
           next = "issue" => /\ id \in Rows => cards[id].number = ask.number
                             /\ id \in Rows /\ card = NoCard => cards[id].home = ask.register
                             /\ card # NoCard => ask.kind = "create" /\ card \in CardRow
                                                /\ CopyTrue(id, card),
           next \in {"act", "store"} => card \in CardRow /\ CopyTrue(id, card)
    PROVE  Inv'
  <1>1. Moved(c) /\ at'[c] = next /\ loc'[c] = [ask |-> ask, id |-> id, card |-> card]
    BY GoesTo DEF Inv, Typed
  <1>2. CopyTrue(id, card) => CopyTrue(id, card)'
    BY DEF CopyTrue, CodeSent, Rows, tables
  <1>3. CallKept(c)'
    BY <1>1, <1>2 DEF CallKept, Rows, tables
  <1> QED BY <1>1, <1>3, ReadingStep DEF Inv, Typed

(* A call that ends holds nothing.                                              *)
LEMMA EndingStep ==
    ASSUME Inv, NEW c \in Callers, Ends(c), UNCHANGED <<tables, now, sent, proved, handed>>
    PROVE  Inv'
  BY OnlyMoves DEF Ends, Steps

(* What ByNumber finds is a row with the number.                                 *)
LEMMA ByNumberFinds ==
    ASSUME Typed, NEW n, NEW s, ByNumber(n, s) # NoId
    PROVE  ByNumber(n, s) \in Rows /\ cards[ByNumber(n, s)].number = n
  <1> DEFINE held   == {i \in Rows : InScope(i, s) /\ cards[i].number = n /\ ~cards[i].removed}
             rigged == {i \in held : cards[i].source = "console"}
             from   == IF rigged = {} THEN held ELSE rigged
  <1>1. from # {} /\ ByNumber(n, s) = CHOOSE i \in from : \A j \in from : i <= j
    BY DEF ByNumber
  <1>2. from \subseteq Nat
    BY DEF Rows, Slots
  <1>3. \E i \in from : \A j \in from : i <= j
    <2> HIDE DEF from
    <2> QED BY <1>1, <1>2, LeastExists
  <1>4. ByNumber(n, s) \in from
    <2> HIDE DEF from
    <2> QED BY <1>1, <1>3
  <1> QED BY <1>4

LEMMA CreateBeginKeeps ==
    ASSUME Inv, NEW c \in Callers, CreateBegin(c) PROVE Inv'
  <1>1. PICK ask \in Registrations :
           LET i == ByNumber(ask.number, ask.register)
           IN  IF i = NoId THEN Goto(c, "insert", ask, NoId, NoCard)
                           ELSE Goto(c, "issue", ask, i, cards[i])
    BY DEF CreateBegin
  <1> DEFINE i == ByNumber(ask.number, ask.register)
  <1>2. ask \in Ask
    BY DEF Registrations, Ask, Inv, Typed
  <1>3. UNCHANGED <<tables, now, sent, proved, handed>>
    BY DEF CreateBegin, Rest, tables
  <1>4. CASE i = NoId
    <2>1. Goto(c, "insert", ask, NoId, NoCard)
      BY <1>1, <1>4
    <2> QED BY <2>1, <1>2, <1>3, OnlyMoves DEF Steps
  <1>5. CASE i # NoId
    <2>1. Goto(c, "issue", ask, i, cards[i])
      BY <1>1, <1>5
    <2>2. i \in Rows /\ cards[i].number = ask.number
      BY <1>5, ByNumberFinds DEF Inv, Typed
    <2> HIDE DEF i
    <2>3. i \in 1..serial /\ cards[i] \in CardRow /\ CopyTrue(i, cards[i])
      BY <2>2 DEF Inv, Typed, Rows, Slots, RowsKept
    <2>4. ask.kind = "create" /\ cards[i] # NoCard
      BY <2>2 DEF Registrations, Rows
    <2> QED BY <2>1, <2>2, <2>3, <2>4, <1>2, <1>3, OnlyMoves DEF Steps
  <1> QED BY <1>4, <1>5
LEMMA AddBeginKeeps ==
    ASSUME Inv, NEW c \in Callers, AddBegin(c) PROVE Inv'
  <1>1. PICK ask \in Additions : Goto(c, "insert", ask, NoId, NoCard)
    BY DEF AddBegin
  <1>2. ask \in Ask
    BY DEF Additions, Ask, Inv, Typed
  <1>3. UNCHANGED <<tables, now, sent, proved, handed>>
    BY DEF AddBegin, Rest, tables
  <1> QED BY <1>1, <1>2, <1>3, OnlyMoves DEF Steps

LEMMA RefusalsKeep ==
    ASSUME Inv, NEW c \in Callers, InsertRefused(c) \/ IssueFails(c) \/ Refuse(c) \/ Fail(c)
    PROVE  Inv'
  <1>1. Ends(c) /\ UNCHANGED <<tables, now, sent, proved, handed>>
    BY DEF InsertRefused, IssueFails, Refuse, Fail, Same, Rest, tables
  <1> QED BY <1>1, EndingStep

(* A card found by a token is there.                                            *)
LEMMA LoadKeeps ==
    ASSUME Inv, NEW c \in Callers, Load(c) PROVE Inv'
  <1>1. PICK s \in live, t \in Tokens :
           ByToken(t, s) # NoId /\ Goto(c, "act", NoId, ByToken(t, s), cards[ByToken(t, s)])
    BY DEF Load
  <1>2. ByToken(t, s) = t.card /\ t.card \in Rows
    BY <1>1 DEF ByToken, InScope
  <1>3. t.card \in 1..serial /\ cards[t.card] \in CardRow /\ CopyTrue(t.card, cards[t.card])
    BY <1>2 DEF Inv, Typed, Rows, Slots, RowsKept
  <1>4. UNCHANGED <<tables, now, sent, proved, handed>>
    BY DEF Load, Rest, tables
  <1>5. Goto(c, "act", NoId, t.card, cards[t.card])
    BY <1>1, <1>2
  <1> QED BY <1>3, <1>4, <1>5, OnlyMoves DEF Steps

(* What a call that acts on a card holds.                                       *)
LEMMA ActingHolds ==
    ASSUME Inv, NEW c \in Callers, at[c] \in {"act", "store"}
    PROVE  \E i \in Slots, old \in CardRow :
              i = loc[c].id /\ old = loc[c].card /\ i \in 1..serial /\ CopyTrue(i, old)
  <1>1. /\ loc[c].id \in 1..serial /\ loc[c].card \in CardRow
        /\ CopyTrue(loc[c].id, loc[c].card)
    BY DEF Inv, CallsKept, CallKept
  <1>2. loc[c].id \in Slots
    BY <1>1, CardsAssumption DEF Inv, Typed, Slots
  <1> QED BY <1>1, <1>2

LEMMA RemoveKeeps ==
    ASSUME Inv, NEW c \in Callers, Remove(c) PROVE Inv'
  <1>1. PICK i \in Slots, old \in CardRow :
           i = loc[c].id /\ old = loc[c].card /\ i \in 1..serial /\ CopyTrue(i, old)
    BY ActingHolds DEF Remove
  <1> DEFINE card == [old EXCEPT !.removed = TRUE]
  <1>2. card \in CardRow /\ card.verify = old.verify /\ card.code = old.code
    BY DEF CardRow
  <1>3. CopyTrue(i, card)
    BY <1>1, <1>2 DEF CopyTrue
  <1>4. Goto(c, "store", NoId, i, card)
        /\ UNCHANGED <<tables, now, sent, proved, handed>>
    BY <1>1 DEF Remove, Same, Rest, tables
  <1> HIDE DEF card
  <1> QED BY <1>1, <1>2, <1>3, <1>4, OnlyMoves DEF Steps

(* The code that is sent is remembered as sent, at the moment it was.           *)
LEMMA GetVerifyCodeKeeps ==
    ASSUME Inv, NEW c \in Callers, GetVerifyCode(c) PROVE Inv'
  <1>1. PICK i \in Slots, old \in CardRow :
           i = loc[c].id /\ old = loc[c].card /\ i \in 1..serial /\ CopyTrue(i, old)
    BY ActingHolds DEF GetVerifyCode
  <1>t. PICK t \in Nat : t = now
    BY DEF Inv, Typed
  <1> DEFINE code == [value |-> ExpectedVerifyCode(old), at |-> t, wait |-> Window(VerifyWait)]
             card == SendVerifyCode(old, t)
  <1>2. code \in Code /\ ExpectedVerifyCode(old) \in Issued
    BY WindowIsPositive DEF Code, ExpectedVerifyCode, Issued
  <1>3. card \in CardRow /\ card.verify = old.verify /\ card.code = code
    <2>1. card = [old EXCEPT !.code = code]
      BY DEF SendVerifyCode
    <2> HIDE DEF code, card
    <2> QED BY <2>1, <1>2 DEF CardRow
  <1>4. /\ Goto(c, "store", NoId, i, card) /\ UNCHANGED <<tables, now, proved, handed>>
        /\ sent' = [sent EXCEPT ![i] = @ \union {<<t, ExpectedVerifyCode(old)>>}]
    BY <1>1, <1>t DEF GetVerifyCode, Same, Rest, tables
  <1>5. /\ sent' \in [Slots -> SUBSET (Nat \X Issued)]
        /\ \A j \in Slots : sent[j] \subseteq sent'[j]
        /\ <<t, ExpectedVerifyCode(old)>> \in sent'[i]
    BY <1>1, <1>2, <1>4 DEF Inv, Typed
  <1>6. Moved(c) /\ at'[c] = "store" /\ loc'[c] = [ask |-> NoId, id |-> i, card |-> card]
    BY <1>4, GoesTo DEF Inv, Typed, Steps
  <1>7. CopyTrue(i, card)'
    <2>1. i \in Rows' => (card.verify => i \in proved')
      BY <1>1, <1>3, <1>4 DEF CopyTrue, Rows, tables
    <2>2. CodeSent(i, card.code)'
      <3>1. now' = t /\ code.wait = Window(VerifyWait) /\ code.at = t
            /\ code.value = ExpectedVerifyCode(old)
        BY <1>4, <1>t
      <3> HIDE DEF code
      <3>2. CodeSent(i, code)'
        BY <3>1, <1>5 DEF CodeSent
      <3> HIDE DEF card
      <3> QED BY <3>2, <1>3
    <2> QED BY <2>1, <2>2 DEF CopyTrue
  <1>8. CallKept(c)'
    BY <1>1, <1>3, <1>4, <1>6, <1>7 DEF CallKept, tables
  <1> QED BY <1>4, <1>5, <1>6, <1>8, ReadingStep
(* A code that verifies a true copy was given in time.                          *)
LEMMA VerifiesInTime ==
    ASSUME Typed, NEW i \in Rows, NEW card \in CardRow, CopyTrue(i, card),
           NEW given, Verifies(card, given, now)
    PROVE  InTime(i, given)
  <1>1. card.code \in Code /\ card.code # NoCode /\ ~VerifyExpired(card.code, now)
        /\ given \in {card.code.value, DefaultVerifyCode}
    BY DEF Verifies, CardRow
  <1>2. CodeSent(i, card.code) /\ card.code.at \in Nat /\ now \in Nat
    BY <1>1 DEF CopyTrue, Code, Typed
  <1>3. card.code.wait = Window(VerifyWait) /\ now - card.code.at <= Window(VerifyWait)
    BY <1>1, <1>2, WindowIsPositive DEF CodeSent, VerifyExpired
  <1>4. <<card.code.at, card.code.value>> \in sent[i]
    BY <1>1, <1>2, <1>3 DEF CodeSent
  <1> QED BY <1>1, <1>3, <1>4 DEF InTime

LEMMA VerifyKeeps ==
    ASSUME Inv, NEW c \in Callers, Verify(c) PROVE Inv'
  <1>1. PICK i \in Slots, old \in CardRow :
           i = loc[c].id /\ old = loc[c].card /\ i \in 1..serial /\ CopyTrue(i, old)
    BY ActingHolds DEF Verify
  <1>2. PICK given \in Tried :
           /\ Verifies(old, given, now)
           /\ proved' = IF InTime(i, given) THEN proved \union {i} ELSE proved
    BY <1>1 DEF Verify
  <1> DEFINE half == [old EXCEPT !.verify = TRUE]
             card == [half EXCEPT !.code = NoCode]
  <1>3. half \in CardRow
    BY DEF CardRow
  <1>4. card \in CardRow /\ card.code = NoCode
    <2> HIDE DEF half
    <2> QED BY <1>3 DEF CardRow
  <1>5. Goto(c, "store", NoId, i, card) /\ UNCHANGED <<tables, now, sent, handed>>
    BY <1>1 DEF Verify, Same, Rest, tables
  <1> HIDE DEF card
  <1>6. i \in Rows => i \in proved'
    BY <1>1, <1>2, VerifiesInTime DEF Inv
  <1>7. CopyTrue(i, card)'
    BY <1>4, <1>5, <1>6 DEF CopyTrue, CodeSent, Rows, tables
  <1>8. Moved(c) /\ at'[c] = "store" /\ loc'[c] = [ask |-> NoId, id |-> i, card |-> card]
    BY <1>5, GoesTo DEF Inv, Typed, Steps
  <1>9. CallKept(c)'
    BY <1>1, <1>4, <1>5, <1>7, <1>8 DEF CallKept, tables
  <1>10. proved \subseteq proved' /\ sent' \in [Slots -> SUBSET (Nat \X Issued)]
         /\ \A j \in Slots : sent[j] \subseteq sent'[j]
    BY <1>2, <1>5 DEF Inv, Typed
  <1> QED BY <1>5, <1>8, <1>9, <1>10, ReadingStep

-----------------------------------------------------------------------------
(* Steps that write the tables.                                                *)

(* A row that keeps its verify and its code stays a true one.                   *)
LEMMA RowStaysTrue ==
    ASSUME Inv, Typed', Evolves, NEW i \in Rows,
           cards'[i].verify = cards[i].verify, cards'[i].code = cards[i].code
    PROVE  CopyTrue(i, cards[i])'
  <1>1. cards[i] \in CardRow /\ i \in 1..serial /\ CopyTrue(i, cards[i])
    BY DEF Inv, Typed, Rows, RowsKept, Slots
  <1>2. PICK card \in CardRow : card = cards[i]
    BY <1>1
  <1>3. CopyTrue(i, card)'
    BY <1>1, <1>2, CopyStaysTrue DEF Inv, Typed
  <1> QED BY <1>2, <1>3 DEF CopyTrue

(* The calls under way keep what they hold when the console writes.             *)
LEMMA CallsKeptByConsole ==
    ASSUME Inv, Typed', Evolves, UNCHANGED <<at, loc>> PROVE CallsKept'
  <1> SUFFICES ASSUME NEW d \in Callers PROVE CallKept(d)'
    BY DEF CallsKept
  <1> QED BY OthersKept DEF Inv, CallsKept

(* The row of a new card.                                                      *)
LEMMA RowIs ==
    ASSUME Typed, NEW s \in Registers, NEW n \in Numbers, NEW source \in {"api", "console"},
           NEW form \in [outcome : Outcomes, verify : BOOLEAN, sms : BOOLEAN]
    PROVE  Row(s, n, source, form) \in CardRow
  <1>1. MerchantOf(s) \in Registers \union Groups
    BY CardsAssumption DEF Typed, MerchantOf
  <1> QED BY <1>1 DEF Row, CardRow

LEMMA InsertKeeps ==
    ASSUME Inv, NEW c \in Callers, Insert(c) PROVE Inv'
  <1>1. PICK ask \in Ask : ask = loc[c].ask
    BY DEF Insert, Runs, Inv, CallsKept, CallKept
  <1>2. PICK i \in Slots : i = serial + 1 /\ i = serial'
    BY CardsAssumption DEF Insert, Slots, Inv, Typed
  <1>3. PICK card \in CardRow :
           /\ card.home = ask.register /\ card.key = MerchantOf(ask.register)
           /\ card.number = ask.number /\ card.code = NoCode
           /\ cards' = [cards EXCEPT ![i] = card]
           /\ proved' = IF card.verify THEN proved \union {i} ELSE proved
    <2>1. PICK source \in {"api", "console"},
               form \in [outcome : Outcomes, verify : BOOLEAN, sms : BOOLEAN] :
             LET card == Row(ask.register, ask.number, source, form)
             IN  /\ cards' = [cards EXCEPT ![i] = card]
                 /\ proved' = IF card.verify THEN proved \union {i} ELSE proved
      <3>1. Ordinary \in [outcome : Outcomes, verify : BOOLEAN, sms : BOOLEAN]
            /\ Forms \subseteq [outcome : Outcomes, verify : BOOLEAN, sms : BOOLEAN]
        BY CardsAssumption DEF Ordinary, Outcomes
      <3> DEFINE rows == IF ask.kind = "create" THEN {Row(ask.register, ask.number, "api", Ordinary)}
                         ELSE {Row(ask.register, ask.number, "console", form) : form \in Forms}
      <3>2. PICK row \in rows : /\ cards' = [cards EXCEPT ![i] = row]
                               /\ proved' = IF row.verify THEN proved \union {i} ELSE proved
        BY <1>1, <1>2 DEF Insert
      <3>3. \/ row = Row(ask.register, ask.number, "api", Ordinary)
            \/ \E form \in Forms : row = Row(ask.register, ask.number, "console", form)
        OBVIOUS
      <3> HIDE DEF rows
      <3> QED BY <3>1, <3>2, <3>3
    <2>2. Row(ask.register, ask.number, source, form) \in CardRow
      BY <1>1, RowIs DEF Inv, Ask
    <2> QED BY <2>1, <2>2 DEF Row
  <1>4. /\ ask.register \in live /\ ~Taken(ask.register, ask.number) /\ ask.register \in Registers
        /\ UNCHANGED <<group, live, tokens, own, blocks, now, sent, handed>>
        /\ Goto(c, "issue", ask, i, NoCard)
    BY <1>1, <1>2 DEF Insert, Same, Rest, Ask
  <1>5. i \notin Rows /\ Rows' = Rows \union {i} /\ cards'[i] = card
        /\ \A j \in Rows : cards'[j] = cards[j]
    BY <1>2, <1>3, CardsAssumption DEF Inv, Typed, Rows, Slots
  <1>6. Moved(c) /\ at'[c] = "issue" /\ loc'[c] = [ask |-> ask, id |-> i, card |-> NoCard]
    BY <1>4, GoesTo DEF Inv, Typed, Steps
  <1>7. Typed'
    <2>1. cards' \in [Slots -> CardRow \union {NoCard}]
      BY <1>3 DEF Inv, Typed
    <2>2. MaxCards \in Nat /\ serial \in Nat /\ Rows \subseteq Slots
      BY CardsAssumption DEF Inv, Typed, Rows
    <2>3. serial' \in 0..MaxCards
      BY <1>2, <2>2 DEF Slots
    <2>4. \A j \in Rows' : j <= serial'
      BY <1>2, <1>5, <2>2 DEF Inv, Typed, Slots
    <2> QED BY <2>1, <2>3, <2>4, <1>4, <1>6 DEF Inv, Typed, Moved
  <1>8. Evolves
    BY <1>2, <1>3, <1>4, <1>5 DEF Inv, Typed, Evolves
  <1>9. RowsKept'
    <2> SUFFICES ASSUME NEW j \in Rows' PROVE RowsKept!(j)'
      BY DEF RowsKept
    <2>1. CASE j = i
      BY <2>1, <1>3, <1>4, <1>5 DEF MerchantOf, CopyTrue, CodeSent
    <2>2. CASE j \in Rows
      <3>1. CopyTrue(j, cards[j])'
        BY <2>2, <1>5, <1>7, <1>8, RowStaysTrue
      <3> QED BY <3>1, <2>2, <1>4, <1>5 DEF Inv, RowsKept, MerchantOf
    <2> QED BY <2>1, <2>2, <1>5
  <1>10. Distinct'
    BY <1>3, <1>4, <1>5 DEF Inv, Distinct, Taken
  <1>11. TokensKept' /\ Honoured'
    BY <1>4, <1>5, HonouredStays DEF Inv, TokensKept
  <1>12. CallKept(c)'
    BY <1>1, <1>2, <1>3, <1>5, <1>6 DEF CallKept, Inv, Typed
  <1>13. CallsKept'
    BY <1>6, <1>7, <1>8, <1>12, CallsKeptBy DEF Inv
  <1> QED BY <1>7, <1>9, <1>10, <1>11, <1>13 DEF Inv
LEMMA IssueKeeps ==
    ASSUME Inv, NEW c \in Callers, Issue(c) PROVE Inv'
  <1>1. PICK i \in Rows, ask \in Ask :
           /\ i = loc[c].id /\ ask = loc[c].ask /\ i \in 1..serial /\ i \in Slots
           /\ cards[i].number = ask.number
           /\ loc[c].card = NoCard => cards[i].home = ask.register
           /\ loc[c].card # NoCard => loc[c].card \in CardRow /\ CopyTrue(i, loc[c].card)
    BY DEF Issue, Inv, CallsKept, CallKept, Rows
  <1>2. PICK card : card = loc[c].card
    OBVIOUS
  <1>3. /\ tokens' = [tokens EXCEPT ![i] = @ \union {ask.register}]
        /\ ask.register \in live
        /\ own' \in SUBSET Slots
        /\ UNCHANGED <<group, live, cards, serial, blocks, now, sent, proved>>
    BY <1>1 DEF Inv, Typed, Issue, IssuedTo, Same, Rest
  <1>a. PICK t : t = Handed(c, i, ask.register)
    OBVIOUS
  <1>b. /\ t.card = i /\ t.register = ask.register /\ t.number = ask.number
        /\ \/ t.own = TRUE /\ cards[i].home = ask.register /\ (card = NoCard \/ i \in own)
           \/ t.own = FALSE /\ ~IsOwn(i, ask.register) /\ card # NoCard
    <2>1. /\ t.card = i /\ t.register = ask.register /\ t.number = ask.number
          /\ t.own = (card = NoCard \/ IsOwn(i, ask.register))
      BY <1>1, <1>2, <1>a DEF Handed
    <2> QED BY <2>1, <1>1, <1>2 DEF IsOwn
  <1>c. \/ handed' = handed \union {t}
        \/ handed' = handed /\ ask.kind = "add"
    BY <1>1, <1>a DEF Issue, Ask
  <1>d. own' = IF card = NoCard /\ ask.register \notin tokens[i] THEN own \union {i} ELSE own
    BY <1>1, <1>2 DEF Issue
  <1>e. ask.kind = "add" => ask.register \notin tokens[i]
    BY <1>1 DEF Issue
  <1>f. ask.kind = "add" => card = NoCard
    BY <1>1, <1>2 DEF Issue, Inv, CallsKept, CallKept
  <1>4. \/ Moved(c) /\ loc'[c].id = i /\ loc'[c].card = card /\ at'[c] = "store" /\ card # NoCard
        \/ Moved(c) /\ at'[c] = "idle"
    <2>1. CASE card # NoCard
      <3>1. Goto(c, "store", NoId, i, card)
        BY <1>1, <1>2, <2>1 DEF Issue
      <3>2. at \in [Callers -> Steps] /\ loc = [d \in Callers |-> loc[d]] /\ "store" \in Steps
        BY DEF Inv, Typed, Steps
      <3>3. Moved(c) /\ at'[c] = "store" /\ loc'[c] = [ask |-> NoId, id |-> i, card |-> card]
        BY <3>1, <3>2, GoesTo
      <3> QED BY <3>3, <2>1
    <2>2. CASE card = NoCard
      <3>1. Goto(c, "idle", NoId, NoId, NoCard)
        BY <1>1, <1>2, <2>2 DEF Issue, Ends
      <3> QED BY <3>1, GoesTo DEF Inv, Typed, Steps
    <2> QED BY <2>1, <2>2
  <1>5. /\ tokens' \in [Slots -> SUBSET Registers] /\ tokens'[i] = tokens[i] \union {ask.register}
        /\ \A j \in Slots : j # i => tokens'[j] = tokens[j]
    BY <1>1, <1>3 DEF Inv, Typed, Ask
  <1>6. Typed'
    BY <1>3, <1>4, <1>5 DEF Inv, Typed, Moved, Rows
  <1>7. Evolves /\ Rows' = Rows
    BY <1>3 DEF Inv, Typed, Evolves, Rows
  <1>8. RowsKept' /\ Distinct'
    BY <1>3 DEF Inv, RowsKept, Distinct, Rows, CopyTrue, CodeSent, MerchantOf
  <1>9. TokensKept'
    BY <1>1, <1>3, <1>5, <1>7 DEF Inv, TokensKept
  <1>10. Honoured'
    <2>1. own \subseteq own' /\ own' \subseteq own \union {i}
      BY <1>d
    <2>2. i \in own' /\ i \notin own =>
             card = NoCard /\ ask.register \notin tokens[i] /\ cards[i].home = ask.register
      BY <1>1, <1>2, <1>d
    <2>3. \A j \in Slots : tokens[j] \subseteq tokens'[j]
      BY <1>5
    <2>4. ASSUME NEW u \in handed
          PROVE  /\ u.card \in Rows /\ u.register \in tokens'[u.card]
                 /\ cards[u.card].number = u.number
                 /\ \/ u.own = TRUE /\ cards[u.card].home = u.register
                    \/ u.own = FALSE /\ ~IsOwn(u.card, u.register)'
      <3>1. /\ u.card \in Rows /\ u.card \in Slots /\ u.register \in tokens[u.card]
            /\ cards[u.card].number = u.number
            /\ \/ u.own = TRUE /\ cards[u.card].home = u.register
               \/ u.own = FALSE /\ ~IsOwn(u.card, u.register)
        BY DEF Inv, Honoured, Rows
      <3>2. ~IsOwn(u.card, u.register) => ~IsOwn(u.card, u.register)'
        BY <2>1, <2>2, <3>1, <1>3 DEF IsOwn
      <3> QED BY <2>3, <3>1, <3>2
    <2>5. /\ t.card \in Rows /\ t.register \in tokens'[t.card] /\ cards[t.card].number = t.number
          /\ \/ t.own = TRUE /\ cards[t.card].home = t.register
             \/ t.own = FALSE /\ ~IsOwn(t.card, t.register)'
      <3>1. card # NoCard => own' = own
        BY <1>d
      <3>2. card # NoCard /\ ~IsOwn(i, ask.register) => ~IsOwn(i, ask.register)'
        BY <3>1, <1>3 DEF IsOwn
      <3> QED BY <1>1, <1>5, <1>b, <3>2
    <2>6. \A j \in own' : j \in Rows /\ cards[j].home \in tokens'[j]
      <3>1. \A j \in own : j \in Rows /\ j \in Slots /\ cards[j].home \in tokens[j]
        BY DEF Inv, Honoured, Rows
      <3> QED BY <2>1, <2>2, <2>3, <3>1, <1>1, <1>5
    <2>7. ASSUME NEW j \in Rows \ own', cards[j].home \in tokens'[j]
          PROVE  \E u \in handed' : u.card = j /\ u.register = cards[j].home /\ u.own = FALSE
      <3>1. j \in Rows \ own /\ j \in Slots
        BY <2>1 DEF Rows
      <3>2. CASE cards[j].home \in tokens[j]
        BY <3>1, <3>2, <1>c DEF Inv, Honoured
      <3>3. CASE cards[j].home \notin tokens[j]
        <4>1. j = i /\ cards[i].home = ask.register /\ ask.register \notin tokens[i]
          BY <3>1, <3>3, <2>7, <1>5
        <4>2. card # NoCard
          BY <4>1, <2>7, <1>d
        <4>3. handed' = handed \union {t}
          BY <4>2, <1>c, <1>f
        <4>4. t.own = FALSE
          BY <4>1, <4>2, <3>1, <1>b
        <4> QED BY <4>1, <4>3, <4>4, <1>b
      <3> QED BY <3>2, <3>3
    <2> QED BY <2>4, <2>5, <2>6, <2>7, <1>3, <1>7, <1>c DEF Honoured
  <1>11. CallKept(c)'
    <2>1. CASE Moved(c) /\ at'[c] = "idle"
      BY <2>1 DEF CallKept
    <2>2. CASE Moved(c) /\ loc'[c].id = i /\ loc'[c].card = card /\ at'[c] = "store" /\ card # NoCard
      <3>1. card \in CardRow /\ CopyTrue(i, card)
        BY <1>1, <1>2, <2>2
      <3>2. CopyTrue(i, card)'
        BY <3>1, <1>1, <1>6, <1>7, CopyStaysTrue DEF Inv, Typed
      <3> QED BY <2>2, <3>1, <3>2, <1>1, <1>3 DEF CallKept
    <2> QED BY <2>1, <2>2, <1>4
  <1>12. CallsKept'
    BY <1>4, <1>6, <1>7, <1>11, CallsKeptBy DEF Inv
  <1> QED BY <1>6, <1>8, <1>9, <1>10, <1>12 DEF Inv

(* The columns Update writes and those it leaves (card.go:170).                 *)
LEMMA UpdatedIs ==
    ASSUME NEW row \in CardRow, NEW card \in CardRow
    PROVE  /\ Updated(row, card) \in CardRow
           /\ Updated(row, card).home = row.home /\ Updated(row, card).key = row.key
           /\ Updated(row, card).number = row.number
           /\ Updated(row, card).verify = card.verify /\ Updated(row, card).code = card.code
  <1> DEFINE r1 == [row EXCEPT !.verify = card.verify]
             r2 == [r1 EXCEPT !.code = card.code]
             r3 == [r2 EXCEPT !.removed = card.removed]
             r4 == [r3 EXCEPT !.outcome = card.outcome]
  <1>1. r1 \in CardRow /\ r1.home = row.home /\ r1.key = row.key /\ r1.number = row.number
        /\ r1.verify = card.verify
    BY DEF CardRow
  <1> HIDE DEF r1
  <1>2. r2 \in CardRow /\ r2.home = r1.home /\ r2.key = r1.key /\ r2.number = r1.number
        /\ r2.verify = r1.verify /\ r2.code = card.code
    BY <1>1 DEF CardRow
  <1> HIDE DEF r2
  <1>3. r3 \in CardRow /\ r3.home = r2.home /\ r3.key = r2.key /\ r3.number = r2.number
        /\ r3.verify = r2.verify /\ r3.code = r2.code
    BY <1>2 DEF CardRow
  <1> HIDE DEF r3
  <1>4. r4 \in CardRow /\ r4.home = r3.home /\ r4.key = r3.key /\ r4.number = r3.number
        /\ r4.verify = r3.verify /\ r4.code = r3.code
    BY <1>3 DEF CardRow
  <1>5. Updated(row, card) = r4
    BY DEF Updated, r1, r2, r3
  <1> HIDE DEF r4
  <1> QED BY <1>1, <1>2, <1>3, <1>4, <1>5

(* A step that rewrites rows where they are, keeping home, key and number, and     *)
(* gives a row no verify and no code that are not true of it.                    *)
LEMMA RewritesKeep ==
    ASSUME Inv, cards' \in [Slots -> CardRow \union {NoCard}], Rows' = Rows,
           \A i \in Rows : /\ cards'[i].home = cards[i].home /\ cards'[i].key = cards[i].key
                           /\ cards'[i].number = cards[i].number
                           /\ CopyTrue(i, cards[i])',
           UNCHANGED <<group, live, serial, tokens, own, blocks, now, sent, handed>>,
           proved \subseteq proved',
           at' \in [Callers -> Steps] /\ loc' = [d \in Callers |-> loc'[d]]
    PROVE  Typed' /\ Evolves /\ RowsKept' /\ Distinct' /\ TokensKept' /\ Honoured'
  <1>1. Typed'
    BY DEF Inv, Typed
  <1>2. Evolves
    BY DEF Inv, Typed, Evolves, Rows
  <1>3. RowsKept'
    BY DEF Inv, RowsKept, MerchantOf
  <1>4. Distinct' /\ TokensKept' /\ Honoured'
    BY HonouredStays DEF Inv, Distinct, TokensKept
  <1> QED BY <1>1, <1>2, <1>3, <1>4

LEMMA StoreKeeps ==
    ASSUME Inv, NEW c \in Callers, Store(c) PROVE Inv'
  <1>1. PICK i \in Slots, card \in CardRow :
           i = loc[c].id /\ card = loc[c].card /\ i \in 1..serial /\ CopyTrue(i, card)
    BY ActingHolds DEF Store
  <1>2. UNCHANGED <<group, live, serial, tokens, own, blocks, now, sent, proved, handed>>
    BY DEF Store, Same, Rest
  <1>3. Moved(c) /\ at'[c] = "idle"
    BY GoesTo DEF Store, Ends, Inv, Typed, Steps
  <1>4. CASE i \notin Rows
    <2>1. cards' = cards
      BY <1>1, <1>4 DEF Store
    <2> QED BY <2>1, <1>2, EndingStep DEF Store, tables
  <1>5. CASE i \in Rows
    <2>1. cards' = [cards EXCEPT ![i] = Updated(cards[i], card)] /\ cards[i] \in CardRow
      BY <1>1, <1>5 DEF Store, Inv, Typed, Rows
    <2> DEFINE new == Updated(cards[i], card)
    <2>2. /\ new \in CardRow /\ new.home = cards[i].home /\ new.key = cards[i].key
          /\ new.number = cards[i].number /\ new.verify = card.verify /\ new.code = card.code
      BY <2>1, UpdatedIs
    <2>3. cards' = [cards EXCEPT ![i] = new]
      BY <2>1
    <2> HIDE DEF new
    <2>4. /\ cards' \in [Slots -> CardRow \union {NoCard}] /\ cards'[i] = new
          /\ \A j \in Slots : j # i => cards'[j] = cards[j]
      BY <2>2, <2>3 DEF Inv, Typed
    <2>5. Rows' = Rows
      BY <2>2, <2>4, <1>5, CardsAssumption DEF Rows
    <2>6. ASSUME NEW j \in Rows
          PROVE  /\ cards'[j].home = cards[j].home /\ cards'[j].key = cards[j].key
                 /\ cards'[j].number = cards[j].number /\ CopyTrue(j, cards[j])'
      <3>1. CASE j = i
        BY <3>1, <2>2, <2>4, <2>5, <1>1, <1>2 DEF CopyTrue, CodeSent
      <3>2. CASE j # i
        BY <3>2, <2>4, <2>5, <1>2 DEF CopyTrue, CodeSent, Inv, RowsKept, Rows
      <3> QED BY <3>1, <3>2
    <2>7. Typed' /\ Evolves /\ RowsKept' /\ Distinct' /\ TokensKept' /\ Honoured'
      BY <2>4, <2>5, <2>6, <1>2, <1>3, RewritesKeep DEF Moved
    <2>8. CallKept(c)'
      BY <1>3 DEF CallKept
    <2>9. CallsKept'
      BY <2>7, <2>8, <1>3, CallsKeptBy DEF Inv
    <2> QED BY <2>7, <2>9 DEF Inv
  <1> QED BY <1>4, <1>5
-----------------------------------------------------------------------------
(* The console.                                                               *)

\* A card the operator edits: the outcome and the rest of the form, and its verify.
LEMMA UpdateCardKeeps ==
    ASSUME Inv, NEW i \in Slots, UpdateCard(i) PROVE Inv'
  <1>1. i \in Rows /\ cards[i] \in CardRow
    BY DEF UpdateCard, Inv, Typed, Rows
  <1>2. PICK form \in [outcome : Outcomes, verify : BOOLEAN, sms : BOOLEAN] :
           /\ cards' = [cards EXCEPT ![i] = [@ EXCEPT !.outcome = form.outcome,
                                             !.verify = form.verify, !.sms = form.sms]]
           /\ proved' = IF form.verify THEN proved \union {i} ELSE proved
    BY CardsAssumption DEF UpdateCard
  <1> DEFINE r1 == [cards[i] EXCEPT !.outcome = form.outcome]
             r2 == [r1 EXCEPT !.verify = form.verify]
             new == [r2 EXCEPT !.sms = form.sms]
  <1>3. r1 \in CardRow /\ r1.home = cards[i].home /\ r1.key = cards[i].key
        /\ r1.number = cards[i].number /\ r1.code = cards[i].code
    BY <1>1 DEF CardRow
  <1>4. cards' = [cards EXCEPT ![i] = new]
    BY <1>2
  <1> HIDE DEF r1
  <1>5. r2 \in CardRow /\ r2.home = r1.home /\ r2.key = r1.key
        /\ r2.number = r1.number /\ r2.code = r1.code /\ r2.verify = form.verify
    BY <1>3 DEF CardRow
  <1> HIDE DEF r2
  <1>6. new \in CardRow /\ new.home = r2.home /\ new.key = r2.key
        /\ new.number = r2.number /\ new.code = r2.code /\ new.verify = r2.verify
    BY <1>5 DEF CardRow
  <1> HIDE DEF new
  <1>7. UNCHANGED <<group, live, serial, tokens, own, blocks, now, sent, handed, at, loc>>
    BY DEF UpdateCard, Edit
  <1>8. /\ cards' \in [Slots -> CardRow \union {NoCard}] /\ cards'[i] = new
        /\ \A j \in Slots : j # i => cards'[j] = cards[j]
    BY <1>4, <1>6 DEF Inv, Typed
  <1>9. Rows' = Rows
    BY <1>1, <1>6, <1>8, CardsAssumption DEF Rows
  <1>10. ASSUME NEW j \in Rows
         PROVE  /\ cards'[j].home = cards[j].home /\ cards'[j].key = cards[j].key
                /\ cards'[j].number = cards[j].number /\ CopyTrue(j, cards[j])'
    <2>1. CopyTrue(j, cards[j]) /\ j \in Slots
      BY DEF Inv, RowsKept, Rows
    <2>2. CASE j = i
      BY <2>1, <2>2, <1>2, <1>3, <1>5, <1>6, <1>7, <1>8 DEF CopyTrue, CodeSent
    <2>3. CASE j # i
      BY <2>1, <2>3, <1>2, <1>7, <1>8 DEF CopyTrue, CodeSent
    <2> QED BY <2>2, <2>3
  <1>11. Typed' /\ Evolves /\ RowsKept' /\ Distinct' /\ TokensKept' /\ Honoured'
    BY <1>2, <1>7, <1>8, <1>9, <1>10, RewritesKeep DEF Inv, Typed
  <1> QED BY <1>7, <1>11, CallsKeptByConsole DEF Inv

LEMMA SetCardBlockedKeeps ==
    ASSUME Inv, NEW i \in Slots, SetCardBlocked(i) PROVE Inv'
  <1>1. i \in Rows /\ cards[i] \in CardRow
    BY DEF SetCardBlocked, Inv, Typed, Rows
  <1>2. PICK outcome \in Outcomes : cards' = [cards EXCEPT ![i].outcome = outcome]
    BY DEF SetCardBlocked, Outcomes
  <1> DEFINE new == [cards[i] EXCEPT !.outcome = outcome]
  <1>3. new \in CardRow /\ new.home = cards[i].home /\ new.key = cards[i].key
        /\ new.number = cards[i].number /\ new.code = cards[i].code /\ new.verify = cards[i].verify
    BY <1>1 DEF CardRow
  <1>4. cards' = [cards EXCEPT ![i] = new]
    BY <1>2
  <1> HIDE DEF new
  <1>5. UNCHANGED <<group, live, serial, tokens, own, blocks, now, sent, proved, handed, at, loc>>
    BY DEF SetCardBlocked, Edit
  <1>6. /\ cards' \in [Slots -> CardRow \union {NoCard}] /\ cards'[i] = new
        /\ \A j \in Slots : j # i => cards'[j] = cards[j]
    BY <1>3, <1>4 DEF Inv, Typed
  <1>7. Rows' = Rows
    BY <1>1, <1>3, <1>6, CardsAssumption DEF Rows
  <1>8. ASSUME NEW j \in Rows
        PROVE  /\ cards'[j].home = cards[j].home /\ cards'[j].key = cards[j].key
               /\ cards'[j].number = cards[j].number /\ CopyTrue(j, cards[j])'
    BY <1>3, <1>5, <1>6 DEF CopyTrue, CodeSent, Inv, RowsKept, Rows
  <1>9. Typed' /\ Evolves /\ RowsKept' /\ Distinct' /\ TokensKept' /\ Honoured'
    BY <1>5, <1>6, <1>7, <1>8, RewritesKeep DEF Inv, Typed
  <1> QED BY <1>5, <1>9, CallsKeptByConsole DEF Inv

(* What goes with the rows that are deleted: only they leave.                   *)
LEMMA DroppedKeeps ==
    ASSUME Inv, NEW ids \in SUBSET Slots, Dropped(ids), UNCHANGED <<group, now, sent, at, loc>>,
           live' \subseteq live, \A i \in Rows \ ids : cards[i].home \in live',
           tokens' \in [Slots -> SUBSET live'], blocks' \in [Slots -> SUBSET live'],
           \A i \in Slots : i \in ids \/ i \notin Rows => tokens'[i] = {} /\ blocks'[i] = {},
           handed' \subseteq handed,
           \A t \in handed' : t.card \notin ids /\ t.register \in tokens'[t.card],
           \A i \in Rows \ ids : cards[i].home \in tokens'[i] <=> cards[i].home \in tokens[i],
           \A t \in handed : t.card \notin ids /\ t.register = cards[t.card].home => t \in handed'
    PROVE  Inv'
  <1>1. /\ cards' \in [Slots -> CardRow \union {NoCard}] /\ Rows' = Rows \ ids
        /\ \A i \in Rows' : cards'[i] = cards[i]
    BY DEF Dropped, Rows, Inv, Typed
  <1>2. serial' = serial /\ proved' = proved \ ids /\ own' = own \ ids
    BY DEF Dropped
  <1>3. Typed'
    BY <1>1, <1>2 DEF Inv, Typed
  <1>4. Evolves
    BY <1>1, <1>2 DEF Inv, Typed, Evolves
  <1>5. RowsKept'
    <2> SUFFICES ASSUME NEW i \in Rows' PROVE RowsKept!(i)'
      BY DEF RowsKept
    <2>1. CopyTrue(i, cards[i])'
      BY <1>1, <1>3, <1>4, RowStaysTrue
    <2> QED BY <2>1, <1>1 DEF Inv, RowsKept, MerchantOf
  <1>6. Distinct' /\ TokensKept'
    BY <1>1 DEF Inv, Distinct, TokensKept
  <1>7. Honoured'
    <2>1. ASSUME NEW t \in handed'
          PROVE  /\ t.card \in Rows' /\ t.register \in tokens'[t.card]
                 /\ cards'[t.card].number = t.number
                 /\ \/ t.own = TRUE /\ cards'[t.card].home = t.register
                    \/ t.own = FALSE /\ ~IsOwn(t.card, t.register)'
      BY <1>1, <1>2 DEF Inv, Honoured, IsOwn
    <2>2. \A i \in own' : i \in Rows' /\ cards'[i].home \in tokens'[i]
      BY <1>1, <1>2 DEF Inv, Honoured
    <2>3. ASSUME NEW i \in Rows' \ own', cards'[i].home \in tokens'[i]
          PROVE  \E u \in handed' : u.card = i /\ u.register = cards'[i].home /\ u.own = FALSE
      <3>1. i \in Rows \ ids /\ i \notin own /\ cards'[i] = cards[i] /\ cards[i].home \in tokens[i]
        BY <2>3, <1>1, <1>2
      <3> QED BY <3>1 DEF Inv, Honoured
    <2> QED BY <2>1, <2>2, <2>3 DEF Honoured
  <1>8. CallsKept'
    BY <1>3, <1>4, CallsKeptByConsole
  <1> QED BY <1>3, <1>5, <1>6, <1>7, <1>8 DEF Inv

LEMMA DeleteCardKeeps ==
    ASSUME Inv, NEW i \in Slots, DeleteCard(i) PROVE Inv'
  <1>1. Dropped({i}) /\ UNCHANGED <<group, live, now, sent, at, loc>>
    BY DEF DeleteCard, Edit
  <1>2. tokens' = [tokens EXCEPT ![i] = {}] /\ blocks' = [blocks EXCEPT ![i] = {}]
        /\ handed' = {t \in handed : t.card # i}
    BY DEF DeleteCard
  <1>3. \A j \in Rows : cards[j].home \in live
    BY DEF Inv, RowsKept
  <1>4. /\ tokens' \in [Slots -> SUBSET live] /\ blocks' \in [Slots -> SUBSET live]
        /\ \A j \in Slots : j = i \/ j \notin Rows => tokens'[j] = {} /\ blocks'[j] = {}
    BY <1>2 DEF Inv, TokensKept, Typed
  <1>5. \A t \in handed' : t.card # i /\ t.register \in tokens'[t.card]
    BY <1>2 DEF Inv, Honoured, Typed, Rows
  <1>6. \A j \in Slots : j \in {i} \/ j \notin Rows => tokens'[j] = {} /\ blocks'[j] = {}
    BY <1>4
  <1>7. /\ \A j \in Rows \ {i} : cards[j].home \in tokens'[j] <=> cards[j].home \in tokens[j]
        /\ \A t \in handed : t.card \notin {i} => t \in handed'
    BY <1>2 DEF Inv, Typed, Rows
  <1> QED BY <1>1, <1>2, <1>3, <1>4, <1>5, <1>6, <1>7, DroppedKeeps

LEMMA DeleteSandboxKeeps ==
    ASSUME Inv, NEW s \in Registers, DeleteSandbox(s) PROVE Inv'
  <1> DEFINE mine == {i \in Rows : cards[i].home = s}
  <1>1. Dropped(mine) /\ UNCHANGED <<group, now, sent, at, loc>> /\ live' = live \ {s}
    BY DEF DeleteSandbox, Edit
  <1>2. /\ tokens' = [i \in Slots |-> IF i \in mine THEN {} ELSE tokens[i] \ {s}]
        /\ blocks' = [i \in Slots |-> IF i \in mine THEN {} ELSE blocks[i] \ {s}]
        /\ handed' = {t \in handed : t.card \notin mine /\ t.register # s}
    BY DEF DeleteSandbox
  <1>3. mine \in SUBSET Slots /\ \A i \in Rows \ mine : cards[i].home \in live'
    BY <1>1 DEF Inv, RowsKept, Rows
  <1> HIDE DEF mine
  <1>4. /\ tokens' \in [Slots -> SUBSET live'] /\ blocks' \in [Slots -> SUBSET live']
        /\ \A i \in Slots : i \in mine \/ i \notin Rows => tokens'[i] = {} /\ blocks'[i] = {}
    BY <1>1, <1>2 DEF Inv, TokensKept, Typed
  <1>5. \A t \in handed' : t.card \notin mine /\ t.register \in tokens'[t.card]
    BY <1>2 DEF Inv, Honoured, Typed, Rows
  <1>6. \A i \in Rows \ mine : cards[i].home # s /\ i \in Slots
    BY DEF mine, Rows
  <1>7. \A i \in Rows \ mine : cards[i].home \in tokens'[i] <=> cards[i].home \in tokens[i]
    BY <1>2, <1>6
  <1>8. \A t \in handed : t.card \notin mine /\ t.register = cards[t.card].home => t \in handed'
    BY <1>2, <1>6 DEF Inv, Honoured
  <1> QED BY <1>1, <1>2, <1>3, <1>4, <1>5, <1>7, <1>8, DroppedKeeps
LEMMA SetCardCashboxKeeps ==
    ASSUME Inv, NEW i \in Slots, NEW s \in Registers, SetCardCashbox(i, s) PROVE Inv'
  <1>1. i \in Rows /\ s \in live
        /\ UNCHANGED <<group, live, cards, serial, tokens, own, proved, handed, at, loc, now, sent>>
    BY DEF SetCardCashbox, Edit
  <1>2. /\ blocks' \in [Slots -> SUBSET Registers] /\ blocks'[i] \subseteq live
        /\ \A j \in Slots : j # i => blocks'[j] = blocks[j]
    BY <1>1 DEF SetCardCashbox, Inv, Typed, TokensKept
  <1>3. Typed' /\ Evolves
    BY <1>1, <1>2 DEF Inv, Typed, Evolves, Rows
  <1>4. RowsKept' /\ Distinct' /\ Honoured'
    BY <1>1, HonouredStays DEF Inv, RowsKept, Distinct, Rows, CopyTrue, CodeSent, MerchantOf
  <1>5. TokensKept'
    BY <1>1, <1>2 DEF Inv, TokensKept, Rows
  <1>6. CallsKept'
    BY <1>1, <1>3, CallsKeptByConsole
  <1> QED BY <1>3, <1>4, <1>5, <1>6 DEF Inv

(* A register that moves takes its cards' keys with it, and none of them meets a  *)
(* card of the merchant it comes to.                                           *)
LEMMA UpdateSandboxKeeps ==
    ASSUME Inv, NEW s \in Registers, UpdateSandbox(s) PROVE Inv'
  <1>1. PICK g \in Groups \union {NoGroup} :
         LET key  == IF g = NoGroup THEN s ELSE g
             mine == {i \in Rows : cards[i].home = s}
         IN  /\ group' = [group EXCEPT ![s] = g]
             /\ \A i \in mine, j \in Rows \ mine :
                  ~(cards[j].key = key /\ cards[j].number = cards[i].number)
             /\ cards' = KeysRefreshed(s, key)
    BY DEF UpdateSandbox
  <1> DEFINE key == IF g = NoGroup THEN s ELSE g
  <1>2. key \in Registers \union Groups
    OBVIOUS
  <1>3. UNCHANGED <<live, serial, tokens, own, blocks, proved, handed, at, loc, now, sent>>
    BY DEF UpdateSandbox, Edit
  <1>4. group' \in [Registers -> Groups \union {NoGroup}] /\ MerchantOf(s)' = key
        /\ \A r \in Registers : r # s => MerchantOf(r)' = MerchantOf(r)
    BY <1>1 DEF Inv, Typed, MerchantOf
  <1>5. ASSUME NEW i \in Rows, cards[i].home = s
        PROVE  /\ cards'[i] \in CardRow /\ cards'[i].key = key
               /\ cards'[i].home = s /\ cards'[i].number = cards[i].number
               /\ cards'[i].verify = cards[i].verify /\ cards'[i].code = cards[i].code
    <2>1. cards[i] \in CardRow /\ i \in Slots
      BY DEF Inv, Typed, Rows
    <2>2. cards'[i] = [cards[i] EXCEPT !.key = key]
      BY <1>1, <1>5, <2>1 DEF KeysRefreshed
    <2> HIDE DEF key
    <2> QED BY <2>1, <2>2, <1>2, <1>5 DEF CardRow
  <1>6. \A i \in Slots : ~(i \in Rows /\ cards[i].home = s) => cards'[i] = cards[i]
    BY <1>1 DEF KeysRefreshed
  <1>7. \A i \in Rows, j \in Rows : cards[i].home = s /\ cards[j].home # s
                                   => ~(cards[j].key = key /\ cards[j].number = cards[i].number)
    BY <1>1
  <1>8. cards' = [i \in Slots |-> cards'[i]]
    BY <1>1 DEF KeysRefreshed
  <1> HIDE DEF key
  <1>9. Rows' = Rows /\ cards' \in [Slots -> CardRow \union {NoCard}]
    BY <1>5, <1>6, <1>8, CardsAssumption DEF Inv, Typed, Rows
  <1>10. ASSUME NEW i \in Rows
         PROVE  /\ cards'[i].home = cards[i].home /\ cards'[i].number = cards[i].number
                /\ cards'[i].verify = cards[i].verify /\ cards'[i].code = cards[i].code
                /\ cards'[i].key = IF cards[i].home = s THEN key ELSE cards[i].key
    BY <1>5, <1>6 DEF Rows
  <1>11. Typed' /\ Evolves
    BY <1>3, <1>4, <1>9, <1>10 DEF Inv, Typed, Evolves
  <1>12. RowsKept'
    <2> SUFFICES ASSUME NEW i \in Rows PROVE RowsKept!(i)'
      BY <1>9 DEF RowsKept
    <2>1. CopyTrue(i, cards[i])'
      BY <1>10, <1>11, RowStaysTrue
    <2>2. PICK h \in Registers :
             h = cards[i].home /\ h \in live /\ cards[i].key = MerchantOf(h)
      BY DEF Inv, RowsKept, Typed
    <2>3. cards'[i].home = h /\ cards'[i].key = MerchantOf(h)'
      BY <2>2, <1>4, <1>10
    <2> QED BY <2>1, <2>2, <2>3, <1>3 DEF MerchantOf
  <1>13. Distinct'
    <2> SUFFICES ASSUME NEW i \in Rows, NEW j \in Rows, cards'[i].key = cards'[j].key,
                        cards'[i].number = cards'[j].number
                 PROVE  i = j
      BY <1>9 DEF Distinct
    <2>1. cards[i].number = cards[j].number
      BY <1>10
    <2>2. CASE cards[i].home = s /\ cards[j].home = s
      BY <2>1, <2>2 DEF Inv, RowsKept, Distinct
    <2>3. CASE cards[i].home # s /\ cards[j].home # s
      BY <2>1, <2>3, <1>10 DEF Inv, Distinct
    <2> QED BY <2>1, <2>2, <2>3, <1>7, <1>10
  <1>14. TokensKept' /\ Honoured'
    BY <1>3, <1>9, <1>10, HonouredStays DEF Inv, TokensKept
  <1>15. CallsKept'
    BY <1>3, <1>11, CallsKeptByConsole
  <1> QED BY <1>11, <1>12, <1>13, <1>14, <1>15 DEF Inv

(* The moments pass, and only what is past its window is forgotten.             *)
LEMMA TickKeeps ==
    ASSUME Inv, Tick PROVE Inv'
  <1>1. /\ now' = now + 1 /\ now \in Nat
        /\ sent' = [i \in Slots |-> {p \in sent[i] : now' - p[1] <= Window(VerifyWait)}]
        /\ UNCHANGED <<tables, proved, handed, at, loc>>
    BY DEF Tick, tables, Inv, Typed
  <1> USE DEF tables
  <1>2. sent' \in [Slots -> SUBSET (Nat \X Issued)]
    BY <1>1 DEF Inv, Typed
  <1>3. Typed'
    BY <1>1, <1>2 DEF Inv, Typed, Rows
  <1>4. Evolves
    BY <1>1 DEF Inv, Typed, Evolves, Rows
  <1>5. RowsKept'
    <2> SUFFICES ASSUME NEW i \in Rows PROVE RowsKept!(i)'
      BY <1>1 DEF RowsKept, Rows
    <2>1. CopyTrue(i, cards[i])'
      BY <1>1, <1>3, <1>4, RowStaysTrue
    <2> QED BY <2>1, <1>1 DEF Inv, RowsKept, MerchantOf
  <1>6. Distinct' /\ TokensKept' /\ Honoured'
    BY <1>1, HonouredStays DEF Inv, Distinct, TokensKept, Rows, tables
  <1>7. CallsKept'
    BY <1>1, <1>3, <1>4, CallsKeptByConsole
  <1> QED BY <1>3, <1>5, <1>6, <1>7 DEF Inv
(* As many ids as numbers, and every number given to one of them: no number twice. *)
LEMMA SeededOnce ==
    ASSUME NEW ids, NEW missing, IsFiniteSet(ids), Cardinality(ids) = Cardinality(missing),
           NEW number \in [ids -> missing], \A n \in missing : \E i \in ids : number[i] = n
    PROVE  \A i, j \in ids : number[i] = number[j] => i = j
  <1>1. number \in Surjection(ids, missing)
    BY DEF Surjection
  <1>2. number \in Injection(ids, missing)
    BY <1>1, FS_SurjSameCardinalityImpliesInj
  <1> QED BY <1>2 DEF Injection, IsInjective

LEMMA FollowingIds ==
    ASSUME NEW first \in Nat, NEW k \in Nat
    PROVE  IsFiniteSet(first + 1 .. first + k) /\ Cardinality(first + 1 .. first + k) = k
  <1>1. first + 1 \in Int /\ first + k \in Int
    OBVIOUS
  <1>2. IsFiniteSet(first + 1 .. first + k)
        /\ Cardinality(first + 1 .. first + k)
             = IF first + 1 > first + k THEN 0 ELSE (first + k) - (first + 1) + 1
    BY <1>1, FS_Interval
  <1>3. (IF first + 1 > first + k THEN 0 ELSE (first + k) - (first + 1) + 1) = k
    OBVIOUS
  <1> QED BY <1>2, <1>3

LEMMA SeedKeeps ==
    ASSUME Inv, NEW s \in Registers, SeedPaymeCards(s) PROVE Inv'
  <1>1. PICK missing \in SUBSET TestNumbers : missing = {n \in TestNumbers : ~Taken(s, n)}
    OBVIOUS
  <1> DEFINE these == serial + 1 .. serial + Cardinality(missing)
             Numbered(ids) ==
                \E number \in [ids -> missing] :
                   /\ \A n \in missing : \E i \in ids : number[i] = n
                   /\ cards' = [i \in Slots |-> IF i \in ids THEN Row(s, number[i], "console", Test)
                                               ELSE cards[i]]
  <1>a. /\ these \subseteq Slots /\ Numbered(these)
        /\ serial' = serial + Cardinality(missing) /\ proved' = proved \union these
        /\ own' = own \union these \union {i \in Rows : cards[i].home = s /\ s \notin tokens[i]}
        /\ tokens' = [i \in Slots |-> IF i \in these \/ (i \in Rows /\ cards[i].home = s)
                                      THEN tokens[i] \union {s} ELSE tokens[i]]
    BY <1>1 DEF SeedPaymeCards
  <1> HIDE DEF Numbered
  <1>2. PICK ids \in SUBSET Slots :
           /\ ids = serial + 1 .. serial + Cardinality(missing)
           /\ serial' = serial + Cardinality(missing) /\ proved' = proved \union ids
           /\ tokens' = [i \in Slots |-> IF i \in ids \/ (i \in Rows /\ cards[i].home = s)
                                         THEN tokens[i] \union {s} ELSE tokens[i]]
           /\ own' = own \union ids \union {i \in Rows : cards[i].home = s /\ s \notin tokens[i]}
           /\ Numbered(ids)
    BY <1>a
  <1> HIDE DEF these
  <1> USE DEF Numbered
  <1>3. PICK number \in [ids -> missing] :
           /\ \A n \in missing : \E i \in ids : number[i] = n
           /\ cards' = [i \in Slots |-> IF i \in ids THEN Row(s, number[i], "console", Test)
                                        ELSE cards[i]]
    BY <1>2
  <1>4. s \in live /\ UNCHANGED <<group, live, blocks, handed, at, loc, now, sent>>
    BY DEF SeedPaymeCards, Edit
  <1>5. serial \in Nat /\ Cardinality(missing) \in Nat
    BY CardsAssumption, FS_Subset, FS_CardinalityType DEF Inv, Typed
  <1>6. ids \intersect Rows = {} /\ \A i \in ids : i > serial /\ i <= serial'
    BY <1>2, <1>5 DEF Inv, Typed, Rows, Slots
  <1>7. ASSUME NEW i \in ids
        PROVE  /\ cards'[i] \in CardRow /\ cards'[i].home = s /\ cards'[i].key = MerchantOf(s)
               /\ cards'[i].number = number[i] /\ cards'[i].code = NoCode
    <2>1. number[i] \in Numbers
      BY CardsAssumption
    <2>2. Row(s, number[i], "console", Test) \in CardRow
      <3>1. Test \in [outcome : Outcomes, verify : BOOLEAN, sms : BOOLEAN]
        BY DEF Test, Outcomes
      <3> QED BY <2>1, <3>1, RowIs DEF Inv
    <2>3. cards'[i] = Row(s, number[i], "console", Test)
      BY <1>3
    <2> QED BY <2>2, <2>3 DEF Row
  <1>8. \A i \in Slots \ ids : cards'[i] = cards[i]
    BY <1>3
  <1>9. cards' \in [Slots -> CardRow \union {NoCard}] /\ Rows' = Rows \union ids
    <2>1. cards' = [i \in Slots |-> cards'[i]]
      BY <1>3
    <2>2. \A i \in Slots : cards'[i] \in CardRow \union {NoCard}
      BY <1>7, <1>8 DEF Inv, Typed
    <2>3. \A i \in Slots : cards'[i] # NoCard <=> i \in Rows \/ i \in ids
      BY <1>7, <1>8, CardsAssumption DEF Rows
    <2>4. Rows' = Rows \union ids
      <3>1. \A i \in ids : i \in Slots
        OBVIOUS
      <3>2. \A i : i \in Rows' <=> i \in Slots /\ cards'[i] # NoCard
        BY DEF Rows
      <3>3. \A i \in Rows : i \in Slots
        BY DEF Rows
      <3> QED BY <2>3, <3>1, <3>2, <3>3
    <2> QED BY <2>1, <2>2, <2>4
  <1>10. serial' \in 0..MaxCards /\ \A i \in Rows' : i <= serial'
    <2>1. MaxCards \in Nat
      BY CardsAssumption
    <2>2. serial' <= MaxCards
      <3>1. CASE Cardinality(missing) = 0
        BY <3>1, <1>2, <1>5 DEF Inv, Typed
      <3>2. CASE Cardinality(missing) # 0
        <4>1. serial + Cardinality(missing) \in ids
          BY <3>2, <1>2, <1>5
        <4> QED BY <4>1, <2>1, <1>2 DEF Slots
      <3> QED BY <3>1, <3>2
    <2>3. serial' \in Nat /\ serial' >= serial
      BY <1>2, <1>5
    <2>4. \A i \in Rows' : i <= serial'
      BY <2>3, <1>5, <1>6, <1>9 DEF Inv, Typed, Rows, Slots
    <2> QED BY <2>1, <2>2, <2>3, <2>4
  <1>11. /\ tokens' \in [Slots -> SUBSET Registers]
         /\ \A i \in Slots : tokens[i] \subseteq tokens'[i] /\ tokens'[i] \subseteq tokens[i] \union {s}
         /\ \A i \in Slots : i \notin Rows \union ids => tokens'[i] = tokens[i]
    BY <1>2 DEF Inv, Typed
  <1>12. Typed'
    <2>1. own' \in SUBSET Slots
      BY <1>2 DEF Inv, Typed, Rows
    <2> QED BY <2>1, <1>4, <1>9, <1>10, <1>11 DEF Inv, Typed
  <1>13. Evolves
    <2>1. \A i \in Rows' : i <= serial => i \in Rows /\ i \in Slots /\ i \notin ids
      BY <1>5, <1>6, <1>9 DEF Rows, Slots
    <2> QED BY <2>1, <1>2, <1>4, <1>5, <1>8 DEF Inv, Typed, Evolves
  <1>14. RowsKept'
    <2> SUFFICES ASSUME NEW i \in Rows' PROVE RowsKept!(i)'
      BY DEF RowsKept
    <2>1. CASE i \in ids
      <3>1. CopyTrue(i, cards[i])'
        BY <2>1, <1>2, <1>7 DEF CopyTrue, CodeSent
      <3>2. MerchantOf(cards[i].home)' = MerchantOf(s)
        BY <2>1, <1>4, <1>7 DEF MerchantOf
      <3> QED BY <2>1, <3>1, <3>2, <1>4, <1>7
    <2>2. CASE i \in Rows /\ i \notin ids
      <3>1. cards'[i] = cards[i]
        BY <2>2, <1>8 DEF Rows
      <3>2. CopyTrue(i, cards[i])'
        BY <2>2, <3>1, <1>12, <1>13, RowStaysTrue
      <3> QED BY <3>1, <3>2, <2>2, <1>4 DEF Inv, RowsKept, MerchantOf
    <2> QED BY <2>1, <2>2, <1>9
  <1>15. Distinct'
    <2> SUFFICES ASSUME NEW i \in Rows', NEW j \in Rows', cards'[i].key = cards'[j].key,
                        cards'[i].number = cards'[j].number
                 PROVE  i = j
      BY DEF Distinct
    <2>1. \A k \in Rows \ ids : cards'[k] = cards[k]
      BY <1>8 DEF Rows
    <2>2. CASE i \in ids /\ j \in ids
      <3>1. IsFiniteSet(ids) /\ Cardinality(ids) = Cardinality(missing)
        BY <1>2, <1>5, FollowingIds
      <3>2. \A k, l \in ids : number[k] = number[l] => k = l
        BY <3>1, <1>3, SeededOnce
      <3> QED BY <3>2, <2>2, <1>7
    <2>3. CASE i \in Rows \ ids /\ j \in Rows \ ids
      BY <2>1, <2>3 DEF Inv, Distinct
    <2>4. \A k \in ids, l \in Rows \ ids :
             ~(cards'[l].key = cards'[k].key /\ cards'[l].number = cards'[k].number)
      BY <2>1, <1>1, <1>7 DEF Taken
    <2> QED BY <2>2, <2>3, <2>4, <1>9
  <1>16. TokensKept'
    BY <1>2, <1>4, <1>9, <1>11 DEF Inv, TokensKept
  <1>17. Honoured'
    <2>1. /\ \A i \in Rows : i \in Slots /\ i \notin ids /\ cards'[i] = cards[i]
          /\ \A i \in ids : i \in Slots /\ cards'[i].home = s
      BY <1>6, <1>7, <1>8 DEF Rows
    <2>2. \A i \in ids : s \in tokens'[i]
      BY <1>2
    <2>3. \A i \in Rows : cards[i].home = s => s \in tokens'[i]
      BY <2>1, <1>2
    <2>4. \A i \in Rows : cards[i].home # s => tokens'[i] = tokens[i]
      BY <2>1, <1>2
    <2>5. ASSUME NEW t \in handed
          PROVE  /\ t.card \in Rows' /\ t.register \in tokens'[t.card]
                 /\ cards'[t.card].number = t.number
                 /\ \/ t.own = TRUE /\ cards'[t.card].home = t.register
                    \/ t.own = FALSE /\ ~IsOwn(t.card, t.register)'
      <3>1. /\ t.card \in Rows /\ t.register \in tokens[t.card] /\ cards[t.card].number = t.number
            /\ \/ t.own = TRUE /\ cards[t.card].home = t.register
               \/ t.own = FALSE /\ ~IsOwn(t.card, t.register)
        BY DEF Inv, Honoured
      <3>2. ~IsOwn(t.card, t.register) => ~IsOwn(t.card, t.register)'
        <4> SUFFICES ASSUME IsOwn(t.card, t.register)' PROVE IsOwn(t.card, t.register)
          OBVIOUS
        <4>1. PICK i \in Rows : i = t.card
          BY <3>1
        <4>2. i \in own' /\ cards[i].home = t.register
          BY <2>1, <4>1 DEF IsOwn
        <4>3. i \in own \/ (cards[i].home = s /\ s \notin tokens[i])
          BY <2>1, <4>2, <1>2
        <4> QED BY <3>1, <4>1, <4>2, <4>3 DEF IsOwn
      <3> QED BY <2>1, <3>1, <3>2, <1>9, <1>11
    <2>6. \A i \in own' : i \in Rows' /\ cards'[i].home \in tokens'[i]
      <3>1. \A i \in own : i \in Rows /\ cards[i].home \in tokens[i]
        BY DEF Inv, Honoured
      <3> QED BY <2>1, <2>2, <2>3, <3>1, <1>2, <1>9, <1>11
    <2>7. ASSUME NEW i \in Rows' \ own', cards'[i].home \in tokens'[i]
          PROVE  \E u \in handed' : u.card = i /\ u.register = cards'[i].home /\ u.own = FALSE
      <3>1. i \in Rows /\ i \notin own /\ ~(cards[i].home = s /\ s \notin tokens[i])
        BY <2>7, <1>2, <1>9
      <3>2. cards'[i].home = cards[i].home /\ cards[i].home \in tokens[i]
        BY <2>1, <2>4, <2>7, <3>1
      <3> QED BY <3>1, <3>2, <1>4 DEF Inv, Honoured
    <2> QED BY <2>5, <2>6, <2>7, <1>4 DEF Honoured
  <1>18. CallsKept'
    BY <1>4, <1>12, <1>13, CallsKeptByConsole
  <1> QED BY <1>12, <1>14, <1>15, <1>16, <1>17, <1>18 DEF Inv

-----------------------------------------------------------------------------
(* The invariant.                                                             *)

LEMMA InitInv == Init => Inv
  <1> SUFFICES ASSUME Init PROVE Inv
    OBVIOUS
  <1> USE CardsAssumption DEF Init
  <1>1. Rows = {}
    BY DEF Rows
  <1>2. Typed
    BY <1>1 DEF Typed, Steps
  <1>3. RowsKept /\ Distinct /\ TokensKept /\ Honoured
    BY <1>1 DEF RowsKept, Distinct, TokensKept, Honoured
  <1>4. CallsKept
    BY DEF CallsKept, CallKept
  <1> QED BY <1>2, <1>3, <1>4 DEF Inv

LEMMA StutterKeeps == ASSUME Inv, UNCHANGED vars PROVE Inv'
  <1>1. UNCHANGED <<tables, at, loc, now, sent, proved, handed>>
    BY DEF vars, tables
  <1>2. Honoured'
    BY <1>1, HonouredStays DEF tables, Rows
  <1> QED BY <1>1, <1>2 DEF tables, Inv, Typed, RowsKept, Distinct, TokensKept, CallsKept, CallKept,
         Rows, CopyTrue, CodeSent, MerchantOf

LEMMA NextInv == Inv /\ [Next]_vars => Inv'
  <1> SUFFICES ASSUME Inv, [Next]_vars PROVE Inv'
    OBVIOUS
  <1>1. ASSUME NEW c \in Callers,
               \/ CreateBegin(c) \/ AddBegin(c) \/ InsertRefused(c) \/ Insert(c) \/ Issue(c)
               \/ IssueFails(c) \/ Load(c) \/ GetVerifyCode(c) \/ Verify(c) \/ Remove(c)
               \/ Refuse(c) \/ Store(c) \/ Fail(c)
        PROVE  Inv'
    BY <1>1, CreateBeginKeeps, AddBeginKeeps, RefusalsKeep, InsertKeeps, IssueKeeps, LoadKeeps,
       GetVerifyCodeKeeps, VerifyKeeps, RemoveKeeps, StoreKeeps
  <1>2. ASSUME NEW i \in Slots, UpdateCard(i) \/ SetCardBlocked(i) \/ DeleteCard(i) PROVE Inv'
    BY <1>2, UpdateCardKeeps, SetCardBlockedKeeps, DeleteCardKeeps
  <1>3. ASSUME NEW i \in Slots, NEW s \in Registers, SetCardCashbox(i, s) PROVE Inv'
    BY <1>3, SetCardCashboxKeeps
  <1>4. ASSUME NEW s \in Registers, SeedPaymeCards(s) \/ UpdateSandbox(s) \/ DeleteSandbox(s)
        PROVE  Inv'
    BY <1>4, SeedKeeps, UpdateSandboxKeeps, DeleteSandboxKeeps
  <1>5. CASE Tick
    BY <1>5, TickKeeps
  <1>6. CASE UNCHANGED vars
    BY <1>6, StutterKeeps
  <1> QED BY <1>1, <1>2, <1>3, <1>4, <1>5, <1>6 DEF Next

(* Rows, tokens, blocks and what calls hold agree in every reachable state.     *)
LEMMA Invariance == Spec => []Inv
  <1> QED BY InitInv, NextInv, PTL DEF Spec
-----------------------------------------------------------------------------
(* What the invariant says of the tables.                                      *)

\* A register reads the card exactly when it is of the card's merchant and not blocked.
LEMMA ScopeIsMerchant ==
    ASSUME Inv, NEW i \in Rows, NEW s \in live
    PROVE  InScope(i, s) <=> MerchantOf(s) = cards[i].key /\ s \notin blocks[i]
  <1>1. PICK h \in Registers : h = cards[i].home /\ cards[i].key = MerchantOf(h)
    BY DEF Inv, RowsKept, Typed
  <1>2. /\ s \in Registers
        /\ \A r \in Registers : group[r] \in Groups \union {NoGroup} /\ r \notin Groups
    BY CardsAssumption DEF Inv, Typed
  <1>3. MerchantOf(s) = MerchantOf(h) <=> h = s \/ (group[s] # NoGroup /\ group[h] = group[s])
    BY <1>2 DEF MerchantOf
  <1> QED BY <1>1, <1>3 DEF InScope

LEMMA InvSays == Inv => TypeOK /\ VerifiedWasProved /\ HandedOutIsHonoured /\ OneCardPerMerchant
  <1> SUFFICES ASSUME Inv PROVE TypeOK /\ VerifiedWasProved /\ HandedOutIsHonoured /\ OneCardPerMerchant
    OBVIOUS
  <1>1. \A i \in Rows : i \in Slots /\ cards[i] \in CardRow /\ CopyTrue(i, cards[i])
    BY DEF Inv, Typed, RowsKept, Rows
  <1>2. TypeOK
    <2>1. ASSUME NEW i \in Rows
          PROVE  /\ cards[i].home \in live /\ cards[i].number \in Numbers
                 /\ cards[i].outcome \in Outcomes
                 /\ cards[i].code # NoCode => cards[i].code.value \in Issued /\ cards[i].code.wait > 0
      <3>1. cards[i].code # NoCode => cards[i].code \in Code /\ cards[i].code.wait = Window(VerifyWait)
        BY <1>1 DEF CardRow, CopyTrue, CodeSent
      <3> QED BY <3>1, <1>1, WindowIsPositive DEF Inv, RowsKept, CardRow, Code
    <2> QED BY <2>1 DEF TypeOK, Inv, Typed, TokensKept, Honoured, Steps
  <1>3. VerifiedWasProved
    BY <1>1 DEF VerifiedWasProved, CopyTrue
  <1>4. HandedOutIsHonoured
    <2> SUFFICES ASSUME NEW t \in handed
                 PROVE  \/ Held(t)
                        \/ t.own /\ \E u \in handed : /\ u.card = t.card /\ u.register = t.register
                                                      /\ ~u.own /\ Held(u)
      BY DEF HandedOutIsHonoured, Inv, Honoured
    <2>1. ASSUME NEW u \in handed, u.own = FALSE PROVE Held(u)
      BY <2>1 DEF Held, IsOwn, Inv, Honoured
    <2>2. /\ t.card \in Rows /\ t.register \in tokens[t.card]
          /\ (t.own = TRUE /\ cards[t.card].home = t.register) \/ t.own = FALSE
      BY DEF Inv, Honoured
    <2>3. CASE t.own = TRUE /\ t.card \in own
      BY <2>2, <2>3 DEF Held, IsOwn
    <2>4. CASE t.own = TRUE /\ t.card \notin own
      BY <2>1, <2>2, <2>4 DEF Inv, Honoured
    <2> QED BY <2>1, <2>2, <2>3, <2>4
  <1>5. ASSUME NEW i \in Rows, NEW j \in Rows, NEW s \in live,
               InScope(i, s), InScope(j, s), cards[i].number = cards[j].number
        PROVE  i = j
    BY <1>5, ScopeIsMerchant DEF Inv, Distinct
  <1>6. ASSUME NEW i \in Rows
        PROVE  {s \in live : InScope(i, s)} = {r.register : r \in {q \in CardCashboxes(i) : ~q.blocked}}
    <2>1. CardCashboxes(i) =
             {[register |-> s, blocked |-> s \in blocks[i]] : s \in {r \in live : MerchantOf(r) = cards[i].key}}
      BY DEF CardCashboxes
    <2> DEFINE box(s)  == [register |-> s, blocked |-> s \in blocks[i]]
               listed  == {r.register : r \in {q \in CardCashboxes(i) : ~q.blocked}}
    <2>2. \A s : box(s).register = s /\ (box(s).blocked <=> s \in blocks[i])
      OBVIOUS
    <2>3. ASSUME NEW s \in live, InScope(i, s) PROVE s \in listed
      <3>1. MerchantOf(s) = cards[i].key /\ s \notin blocks[i]
        BY <2>3, ScopeIsMerchant
      <3>2. box(s) \in CardCashboxes(i)
        BY <2>1, <3>1
      <3> HIDE DEF box
      <3> QED BY <3>1, <3>2, <2>2
    <2>4. ASSUME NEW s \in listed PROVE s \in live /\ InScope(i, s)
      <3>1. PICK q \in CardCashboxes(i) : ~q.blocked /\ s = q.register
        OBVIOUS
      <3>2. PICK r \in live : MerchantOf(r) = cards[i].key /\ q = box(r)
        BY <2>1
      <3>3. r = s /\ r \notin blocks[i]
        BY <3>1, <3>2, <2>2
      <3> QED BY <3>2, <3>3, ScopeIsMerchant
    <2> QED BY <2>3, <2>4
  <1> QED BY <1>2, <1>3, <1>4, <1>5, <1>6 DEF OneCardPerMerchant

(* Every value in range in every schedule (StandCards!TypeOK).                  *)
THEOREM TypeCorrect == Spec => []TypeOK
  BY Invariance, InvSays, PTL

(* A card counts as verified only if the console said so or a code was given in time, *)
(* for any number of cards, registers, calls and stale copies (service.go:199).   *)
THEOREM VerifiedIsProved == Spec => []VerifiedWasProved
  BY Invariance, InvSays, PTL

(* What cards.create answered is honoured as long as its card and register exist, *)
(* except a token made with a row that another call tokenized first: then that     *)
(* call's is (service.go:126, cards.go:160).                                   *)
THEOREM HandedOutStays == Spec => []HandedOutIsHonoured
  BY Invariance, InvSays, PTL

(* One card per number for a register, and the card's page lists those that take it *)
(* (cards_one_per_merchant; cardactivity.go:78, cards.go:55).                    *)
THEOREM MerchantHoldsOne == Spec => []OneCardPerMerchant
  BY Invariance, InvSays, PTL
=============================================================================

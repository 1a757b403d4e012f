----------------------------- MODULE StandCards -----------------------------
(* The cards of a merchant's registers: one row per number and merchant, a     *)
(* token per register that asked for it, the code that verifies it, and what   *)
(* the console does to all of them.  Every call is a chain of statements that  *)
(* commit on their own, with the stall of a slow card in between; only the     *)
(* console's seeding and the database's cascades are single steps.             *)
EXTENDS Integers, FiniteSets

CONSTANTS
    Registers, Groups, NoGroup,      \* control.sandboxes and their merchant groups
    InitialGroup,
    Numbers, TestNumbers,            \* card numbers; the provider's documented ones
    Callers,                         \* how many calls may be under way at once
    NoCode, NoCard, NoId,
    ProfileCode, ExpiryCode, DefaultVerifyCode,   \* the codes a card may take
    Tried,                           \* those that callers give
    VerifyWait, DefaultVerifyWait,   \* the profile's window, and the documented one
    Forms,                           \* what an operator fills in: outcome, verify, sms
    Overlap,                         \* "serial": one call or edit at a time; "any"
    MaxCards, MaxClock, MaxCalls,
    MaxIncidents                     \* console edits and failures, together

Slots  == 1..MaxCards
Issued == {ProfileCode, ExpiryCode}
Given  == Issued \union {DefaultVerifyCode}

Outcomes == {"success", "insufficient_funds", "blocked", "expired", "verify_failed", "system_error"}
BlocksEverything == {"blocked", "expired", "system_error"}

\* A code that was sent, and a row of mock.cards.
Code == [value : Issued, at : Nat, wait : Nat \ {0}]
CardRow ==
    [home : Registers, key : Registers \union Groups, number : Numbers,
     source : {"api", "console"}, outcome : Outcomes, verify : BOOLEAN, sms : BOOLEAN,
     removed : BOOLEAN, code : Code \union {NoCode}]

ASSUME CardsAssumption ==
    /\ InitialGroup \in [Registers -> Groups \union {NoGroup}] /\ NoGroup \notin Groups
    /\ Registers \intersect Groups = {}
    /\ TestNumbers \subseteq Numbers
    /\ Forms \subseteq [outcome : Outcomes, verify : BOOLEAN, sms : BOOLEAN]
    /\ NoCode \notin Given /\ Tried \subseteq Given
    /\ VerifyWait \in Int /\ DefaultVerifyWait \in Nat \ {0}
    /\ Overlap \in {"serial", "any"} /\ NoId \notin Slots
    /\ IsFiniteSet(TestNumbers) /\ {MaxCards, MaxClock, MaxCalls, MaxIncidents} \subseteq Nat
    /\ NoCard \notin CardRow /\ NoCode \notin Code

VARIABLES
    group,           \* control.sandboxes.merchant_group
    live,            \* the sandboxes that are there
    cards, serial,   \* mock.cards by id, and the last id given out
    tokens,          \* mock.card_tokens: the registers that hold a token of a card
    own,             \* the cards whose home holds mock.cards.token, made with the row
    blocks,          \* mock.card_cashbox_blocks
    at, loc,         \* the statement a call runs next, and what it holds
    now, calls, incidents,
    sent,            \* history: the codes issued for a card and still in their window
    proved,          \* history: cards verified by a code in time, or by the console
    handed           \* history: the tokens cards.create answered, of rows still there

vars == <<group, live, cards, serial, tokens, own, blocks, at, loc, now, calls, incidents,
          sent, proved, handed>>
tables == <<group, live, cards, serial, tokens, own, blocks>>

-----------------------------------------------------------------------------
(* Rows.                                                                      *)

\* coalesce(merchant_group, 'sandbox:' || id)
MerchantOf(s) == IF group[s] = NoGroup THEN s ELSE group[s]

Row(s, n, source, form) ==
    [home |-> s, key |-> MerchantOf(s), number |-> n, source |-> source,
     outcome |-> form.outcome, verify |-> form.verify, sms |-> form.sms,
     removed |-> FALSE, code |-> NoCode]

Ordinary == [outcome |-> "success", verify |-> FALSE, sms |-> TRUE]
Test     == [outcome |-> "success", verify |-> TRUE, sms |-> TRUE]

Rows == {i \in Slots : cards[i] # NoCard}

\* The stands whose cards a register may read, less those it was taken off.
InScope(i, s) ==
    /\ i \in Rows /\ s \in live
    /\ cards[i].home = s \/ (group[s] # NoGroup /\ group[cards[i].home] = group[s])
    /\ s \notin blocks[i]

(* A register holds one token of a card: the one made with the row, or the one  *)
(* that a later registration offered.                                         *)
IsOwn(i, s) == i \in own /\ cards[i].home = s
Held(t) == t.register \in tokens[t.card] /\ t.own = IsOwn(t.card, t.register)

\* A token stands for its card at every register of the merchant.
ByToken(t, s) == IF InScope(t.card, s) /\ Held(t) THEN t.card ELSE NoId

\* A rigged card wins, then the older one; a removed card is not held.
ByNumber(n, s) ==
    LET held   == {i \in Rows : InScope(i, s) /\ cards[i].number = n /\ ~cards[i].removed}
        rigged == {i \in held : cards[i].source = "console"}
        from   == IF rigged = {} THEN held ELSE rigged
    IN  IF from = {} THEN NoId ELSE CHOOSE i \in from : \A j \in from : i <= j

\* cards_one_per_merchant, a removed card included.
Taken(s, n) == \E i \in Rows : cards[i].key = MerchantOf(s) /\ cards[i].number = n

Operable(card) == ~card.removed /\ card.outcome \notin BlocksEverything

\* An operator's card takes the stand's code, the others what their expiry spells.
ExpectedVerifyCode(card) == IF card.source = "console" THEN ProfileCode ELSE ExpiryCode

\* A mistake: the window as the profile has it.
WindowAsSet(wait) == wait

Window(wait) == IF wait <= 0 THEN DefaultVerifyWait ELSE wait

\* A code goes with its moment and its window, which nothing looks at without it.
SendVerifyCode(card, t) ==
    [card EXCEPT !.code = [value |-> ExpectedVerifyCode(card), at |-> t, wait |-> Window(VerifyWait)]]

VerifyExpired(code, t) == code.wait > 0 /\ t - code.at > code.wait

\* A mistake: the window is not looked at.
VerifiesWhenever(card, code, t) ==
    /\ Operable(card) /\ card.outcome # "verify_failed"
    /\ card.code # NoCode /\ code \in {card.code.value, DefaultVerifyCode}

Verifies(card, code, t) ==
    /\ Operable(card) /\ card.outcome # "verify_failed"
    /\ card.code # NoCode /\ code \in {card.code.value, DefaultVerifyCode}
    /\ ~VerifyExpired(card.code, t)

-----------------------------------------------------------------------------
(* Calls.                                                                     *)
Tokens == [card : Slots, register : Registers, own : BOOLEAN]

\* A card for a number, wanted by a register or by the operator.
Registrations == [kind : {"create"}, register : live, number : Numbers]
Additions == [kind : {"add"}, register : live, number : Numbers]

Free == [ask |-> NoId, id |-> NoId, card |-> NoCard]

Init ==
    /\ group = InitialGroup /\ live = Registers
    /\ cards = [i \in Slots |-> NoCard] /\ serial = 0
    /\ tokens = [i \in Slots |-> {}] /\ own = {} /\ blocks = [i \in Slots |-> {}]
    /\ at = [c \in Callers |-> "idle"] /\ loc = [c \in Callers |-> Free]
    /\ now = 0 /\ calls = 0 /\ incidents = 0
    /\ sent = [i \in Slots |-> {}] /\ proved = {} /\ handed = {}

Quiet == \A c \in Callers : at[c] = "idle"
May   == Overlap = "any" \/ Quiet

Goto(c, next, ask, id, card) ==
    /\ at' = [at EXCEPT ![c] = next]
    /\ loc' = [loc EXCEPT ![c] = [ask |-> ask, id |-> id, card |-> card]]
Ends(c) == Goto(c, "idle", NoId, NoId, NoCard)

Begins(c) ==
    /\ at[c] = "idle" /\ May
    /\ calls < MaxCalls /\ calls' = calls + 1             \* bound
Runs(c, step, kinds) == at[c] = step /\ loc[c].ask.kind \in kinds
Rest == UNCHANGED <<group, live, now, incidents>>
Same == Rest /\ UNCHANGED calls

\* cards.create: the card the merchant holds for the number, if it holds one.
CreateBegin(c) ==
    /\ Begins(c)
    /\ \E ask \in Registrations :
         LET i == ByNumber(ask.number, ask.register)
         IN  IF i = NoId THEN Goto(c, "insert", ask, NoId, NoCard)
                         ELSE Goto(c, "issue", ask, i, cards[i])
    /\ Rest /\ UNCHANGED <<cards, serial, tokens, own, blocks, sent, proved, handed>>

\* The operator adds a card: no look at what the merchant holds.
AddBegin(c) ==
    /\ Begins(c)
    /\ \E ask \in Additions : Goto(c, "insert", ask, NoId, NoCard)
    /\ Rest /\ UNCHANGED <<cards, serial, tokens, own, blocks, sent, proved, handed>>

\* The unique index, or the register's deletion, refuses the row.
InsertRefused(c) ==
    LET ask == loc[c].ask
    IN  /\ Runs(c, "insert", {"create", "add"})
        /\ ask.register \notin live \/ Taken(ask.register, ask.number)
        /\ Ends(c)
        /\ Same /\ UNCHANGED <<cards, serial, tokens, own, blocks, sent, proved, handed>>

Insert(c) ==
    LET ask  == loc[c].ask
        rows == IF ask.kind = "create" THEN {Row(ask.register, ask.number, "api", Ordinary)}
                ELSE {Row(ask.register, ask.number, "console", form) : form \in Forms}
    IN  /\ Runs(c, "insert", {"create", "add"})
        /\ ask.register \in live /\ ~Taken(ask.register, ask.number)
        /\ serial < MaxCards /\ serial' = serial + 1      \* bound
        /\ \E card \in rows :
              /\ cards' = [cards EXCEPT ![serial'] = card]
              /\ proved' = IF card.verify THEN proved \union {serial'} ELSE proved
        /\ Goto(c, "issue", ask, serial', NoCard)
        /\ Same /\ UNCHANGED <<tokens, own, blocks, sent, handed>>

\* A mistake: the register that made the card has its token, the others share it.
IssuedAtHome(i, s) == [tokens EXCEPT ![i] = @ \union {cards[i].home}]

\* TokenFor: the register's token, issued or the one it was handed before.
IssuedTo(i, s) == [tokens EXCEPT ![i] = @ \union {s}]

\* The call that made the row answers the token made with it, whatever TokenFor
\* kept; any other answers the one the register holds.
Handed(c, i, s) ==
    [card |-> i, register |-> s, number |-> loc[c].ask.number,
     own |-> loc[c].card = NoCard \/ IsOwn(i, s)]

\* The console's INSERT is refused when the register holds a token already.
Issue(c) ==
    LET ask == loc[c].ask
        i   == loc[c].id
        s   == ask.register
    IN  /\ at[c] = "issue" /\ i \in Rows /\ s \in live
        /\ ask.kind = "add" => s \notin tokens[i]
        /\ tokens' = IssuedTo(i, s)
        /\ own' = IF loc[c].card = NoCard /\ s \notin tokens[i] THEN own \union {i} ELSE own
        /\ handed' = IF ask.kind = "create" THEN handed \union {Handed(c, i, s)} ELSE handed
        /\ IF loc[c].card # NoCard THEN Goto(c, "store", NoId, i, loc[c].card) ELSE Ends(c)
        /\ Same /\ UNCHANGED <<cards, serial, blocks, sent, proved>>

\* The row or the register is gone; or another call issued the token after this
\* statement's snapshot, and it neither inserts nor sees it.
IssueFails(c) ==
    LET i == loc[c].id
        s == loc[c].ask.register
    IN  /\ at[c] = "issue"
        /\ i \notin Rows \/ s \notin live \/ (Overlap = "any" /\ s \in tokens[i])
        /\ Ends(c)
        /\ Same /\ UNCHANGED <<cards, serial, tokens, own, blocks, sent, proved, handed>>

\* loadCard: the row is read, and then the card stalls.  The three methods that
\* start with it differ in what they do with the copy.
Load(c) ==
    /\ Begins(c)
    /\ \E s \in live, t \in Tokens :
         LET i == ByToken(t, s)
         IN  i # NoId /\ Goto(c, "act", NoId, i, cards[i])
    /\ Rest /\ UNCHANGED <<cards, serial, tokens, own, blocks, sent, proved, handed>>

GetVerifyCode(c) ==
    LET card == loc[c].card
        i    == loc[c].id
    IN  /\ at[c] = "act" /\ Operable(card) /\ card.sms
        /\ Goto(c, "store", NoId, i, SendVerifyCode(card, now))
        /\ sent' = [sent EXCEPT ![i] = @ \union {<<now, ExpectedVerifyCode(card)>>}]
        /\ Same /\ UNCHANGED <<cards, serial, tokens, own, blocks, proved, handed>>

\* One of the codes issued for the card, not longer ago than its window.
InTime(i, given) ==
    \E s \in sent[i] : now - s[1] <= Window(VerifyWait) /\ given \in {s[2], DefaultVerifyCode}

Verify(c) ==
    LET card == loc[c].card
        i    == loc[c].id
    IN  /\ at[c] = "act"
        /\ \E given \in Tried :
             /\ Verifies(card, given, now)
             /\ proved' = IF InTime(i, given) THEN proved \union {i} ELSE proved
        /\ Goto(c, "store", NoId, i, [card EXCEPT !.verify = TRUE, !.code = NoCode])
        /\ Same /\ UNCHANGED <<cards, serial, tokens, own, blocks, sent, handed>>

Remove(c) ==
    /\ at[c] = "act"
    /\ Goto(c, "store", NoId, loc[c].id, [loc[c].card EXCEPT !.removed = TRUE])
    /\ Same /\ UNCHANGED <<cards, serial, tokens, own, blocks, sent, proved, handed>>

Refuse(c) ==
    LET card == loc[c].card
    IN  /\ at[c] = "act"
        /\ ~(Operable(card) /\ card.sms) \/ \E given \in Tried : ~Verifies(card, given, now)
        /\ Ends(c)
        /\ Same /\ UNCHANGED <<cards, serial, tokens, own, blocks, sent, proved, handed>>

\* Update writes what the copy holds, the rigged outcome included, and not what
\* only the console sets.
Updated(row, card) ==
    [row EXCEPT !.verify = card.verify, !.code = card.code, !.removed = card.removed,
                !.outcome = card.outcome]

Store(c) ==
    LET i == loc[c].id
    IN  /\ at[c] = "store"
        /\ cards' = IF i \in Rows THEN [cards EXCEPT ![i] = Updated(@, loc[c].card)] ELSE cards
        /\ Ends(c)
        /\ Same /\ UNCHANGED <<serial, tokens, own, blocks, sent, proved, handed>>

\* A statement fails, the request is cancelled or the process ends.
Fail(c) ==
    /\ at[c] # "idle"
    /\ incidents < MaxIncidents /\ incidents' = incidents + 1  \* bound
    /\ Ends(c)
    /\ UNCHANGED <<group, live, cards, serial, tokens, own, blocks, now, calls, sent, proved, handed>>

-----------------------------------------------------------------------------
(* The console, one statement or one transaction each.                        *)
Edit ==
    /\ May
    /\ incidents < MaxIncidents /\ incidents' = incidents + 1  \* bound
    /\ UNCHANGED <<at, loc, now, calls, sent>>

UpdateCard(i) ==
    /\ Edit /\ i \in Rows /\ cards[i].source = "console"
    /\ \E form \in Forms :
         /\ cards' = [cards EXCEPT ![i] = [@ EXCEPT !.outcome = form.outcome,
                                           !.verify = form.verify, !.sms = form.sms]]
         /\ proved' = IF form.verify THEN proved \union {i} ELSE proved
    /\ UNCHANGED <<group, live, serial, tokens, own, blocks, handed>>

\* Only a blocked card is released: a rigged one keeps what it was given.
SetCardBlocked(i) ==
    /\ Edit /\ i \in Rows
    /\ \/ cards' = [cards EXCEPT ![i].outcome = "blocked"]
       \/ /\ cards[i].outcome = "blocked"
          /\ cards' = [cards EXCEPT ![i].outcome = "success"]
    /\ UNCHANGED <<group, live, serial, tokens, own, blocks, proved, handed>>

\* The tokens and blocks of deleted cards go with them.
Dropped(ids) ==
    /\ cards' = [i \in Slots |-> IF i \in ids THEN NoCard ELSE cards[i]]
    /\ proved' = proved \ ids /\ own' = own \ ids
    /\ UNCHANGED serial

DeleteCard(i) ==
    /\ Edit /\ i \in Rows /\ cards[i].source = "console"
    /\ Dropped({i}) /\ handed' = {t \in handed : t.card # i}
    /\ tokens' = [tokens EXCEPT ![i] = {}] /\ blocks' = [blocks EXCEPT ![i] = {}]
    /\ UNCHANGED <<group, live>>

SetCardCashbox(i, s) ==
    /\ Edit /\ i \in Rows /\ s \in live
    /\ \/ s \notin blocks[i] /\ blocks' = [blocks EXCEPT ![i] = @ \union {s}]
       \/ s \in blocks[i] /\ blocks' = [blocks EXCEPT ![i] = @ \ {s}]
    /\ UNCHANGED <<group, live, cards, serial, tokens, own, proved, handed>>

\* The provider's cards the merchant does not hold yet, and a token for every
\* card of the stand.
SeedPaymeCards(s) ==
    LET missing == {n \in TestNumbers : ~Taken(s, n)}
        ids     == serial + 1 .. serial + Cardinality(missing)
    IN  /\ Edit /\ s \in live /\ ids \subseteq Slots      \* bound
        /\ serial' = serial + Cardinality(missing)
        /\ \E number \in [ids -> missing] :
             /\ \A n \in missing : \E i \in ids : number[i] = n
             /\ cards' = [i \in Slots |-> IF i \in ids THEN Row(s, number[i], "console", Test)
                                          ELSE cards[i]]
        /\ tokens' = [i \in Slots |-> IF i \in ids \/ (i \in Rows /\ cards[i].home = s)
                                      THEN tokens[i] \union {s} ELSE tokens[i]]
        /\ own' = own \union ids \union {i \in Rows : cards[i].home = s /\ s \notin tokens[i]}
        /\ proved' = proved \union ids
        /\ UNCHANGED <<group, live, blocks, handed>>

\* A mistake: moving a register leaves its cards under the merchant it left.
KeysLeftBehind(s, key) == cards

\* The trigger: the cards of a register move with it.
KeysRefreshed(s, key) ==
    [i \in Slots |-> IF i \in Rows /\ cards[i].home = s THEN [cards[i] EXCEPT !.key = key]
                     ELSE cards[i]]

\* UpdateSandbox, unless the other merchant holds one of the numbers.
UpdateSandbox(s) ==
    /\ Edit /\ s \in live
    /\ \E g \in Groups \union {NoGroup} :
         LET key  == IF g = NoGroup THEN s ELSE g
             mine == {i \in Rows : cards[i].home = s}
         IN  /\ group' = [group EXCEPT ![s] = g]
             /\ \A i \in mine, j \in Rows \ mine :
                  ~(cards[j].key = key /\ cards[j].number = cards[i].number)
             /\ cards' = KeysRefreshed(s, key)
    /\ UNCHANGED <<live, serial, tokens, own, blocks, proved, handed>>

\* A register's cards go with it, whoever else holds a token for them.
DeleteSandbox(s) ==
    LET mine == {i \in Rows : cards[i].home = s}
    IN  /\ Edit /\ s \in live /\ live' = live \ {s}
        /\ Dropped(mine) /\ handed' = {t \in handed : t.card \notin mine /\ t.register # s}
        /\ tokens' = [i \in Slots |-> IF i \in mine THEN {} ELSE tokens[i] \ {s}]
        /\ blocks' = [i \in Slots |-> IF i \in mine THEN {} ELSE blocks[i] \ {s}]
        /\ UNCHANGED group

Tick ==
    /\ now < MaxClock /\ now' = now + 1                   \* bound
    /\ sent' = [i \in Slots |-> {s \in sent[i] : now' - s[1] <= Window(VerifyWait)}]
    /\ UNCHANGED <<group, live, cards, serial, tokens, own, blocks, at, loc, calls, incidents,
                   proved, handed>>

Next ==
    \/ \E c \in Callers :
          \/ CreateBegin(c) \/ AddBegin(c) \/ InsertRefused(c) \/ Insert(c) \/ Issue(c)
          \/ IssueFails(c) \/ Load(c) \/ GetVerifyCode(c) \/ Verify(c) \/ Remove(c)
          \/ Refuse(c) \/ Store(c) \/ Fail(c)
    \/ \E i \in Slots : UpdateCard(i) \/ SetCardBlocked(i) \/ DeleteCard(i)
    \/ \E i \in Slots, s \in Registers : SetCardCashbox(i, s)
    \/ \E s \in Registers : SeedPaymeCards(s) \/ UpdateSandbox(s) \/ DeleteSandbox(s)
    \/ Tick

Spec == Init /\ [][Next]_vars

-----------------------------------------------------------------------------
\* The registers the card's page lists, each with whether it takes the card.
CardCashboxes(i) ==
    {[register |-> s, blocked |-> s \in blocks[i]] : s \in {r \in live : MerchantOf(r) = cards[i].key}}

(* Values in range.  A code that waits for its answer has a window (a stand whose *)
(* profile sets none gets the documented one), and rows that are gone leave no   *)
(* token and no block behind.                                                  *)
TypeOK ==
    /\ group \in [Registers -> Groups \union {NoGroup}] /\ live \subseteq Registers
    /\ \A i \in Rows :
          /\ cards[i].home \in live /\ cards[i].number \in Numbers
          /\ cards[i].outcome \in Outcomes
          /\ cards[i].code # NoCode => cards[i].code.value \in Issued /\ cards[i].code.wait > 0
    /\ \A i \in Slots : tokens[i] \union blocks[i] \subseteq live
    /\ \A i \in Slots \ Rows : tokens[i] = {} /\ blocks[i] = {}
    /\ \A i \in own : i \in Rows /\ cards[i].home \in tokens[i]
    /\ at \in [Callers -> {"idle", "insert", "issue", "act", "store"}]

(* A card counts as verified only if the console said so or a code that had been *)
(* issued for it was given back before its window ended, whatever stale copies   *)
(* calls write over each other (service.go:199, card.go:170).                   *)
VerifiedWasProved == \A i \in Rows : cards[i].verify => i \in proved

(* The token cards.create answered a register with stands for a card of the      *)
(* number it asked for, for as long as both exist: through races for the same    *)
(* card, failures between the card and its token, and every edit of the console  *)
(* (service.go:126, cards.go:160).  One exception: a call that made the row       *)
(* answers the token made with it though another call has tokenized the card at   *)
(* the register in between (cards.go:162 discards what TokenFor kept); then the   *)
(* other call's token is the one that stands.                                  *)
HandedOutIsHonoured ==
    \A t \in handed :
        /\ cards[t.card].number = t.number
        /\ \/ Held(t)
           \/ t.own /\ \E u \in handed : u.card = t.card /\ u.register = t.register /\ ~u.own /\ Held(u)

(* However registers join and leave merchants, a register reads at most one card *)
(* per number, and a card's page lists exactly the registers that can charge it  *)
(* (schema: cards_one_per_merchant; cardactivity.go:78, cards.go:55).           *)
OneCardPerMerchant ==
    /\ \A i, j \in Rows, s \in live :
          InScope(i, s) /\ InScope(j, s) /\ cards[i].number = cards[j].number => i = j
    /\ \A i \in Rows :
          {s \in live : InScope(i, s)} = {r.register : r \in {q \in CardCashboxes(i) : ~q.blocked}}

(* "A removed card is not held at all" (cards.go:123): a register whose calls run *)
(* alone can register a number again after removing it.  False: ByNumber does    *)
(* not find the row, and the index that refuses the new one does.              *)
RemovedCanReturn ==
    [][Overlap = "serial" /\ incidents = 0 =>
         \A c \in Callers : Runs(c, "insert", {"create"}) /\ at'[c] # "insert" => serial' # serial]_vars
=============================================================================

------------------------------ MODULE Checkout ------------------------------
(* The receipt a merchant hands to the payer, and its two encodings: the          *)
(* parameter string of a checkout URL and the form.  A text is a value of its own, *)
(* an integer stands for its decimal text, and a parameter string, base64 taken    *)
(* off, is the sequence of what stands between its semicolons: texts with a         *)
(* semicolon in them are outside this module.                                     *)
EXTENDS GoInts, Sequences

CONSTANTS
    Details,  \* texts that decode to a fiscal detail
    Equated   \* field names with a "=" in them, and what is [before, after] the first

Malformed == [receipt |-> FALSE]

-----------------------------------------------------------------------------
(* The receipt.                                                               *)
Receipt(merchant, account, amount, lang, callback, timeout, currency, description, detail) ==
    [merchant |-> merchant, account |-> account, amount |-> amount, lang |-> lang,
     callback |-> callback, timeout |-> timeout, currency |-> currency,
     description |-> description, detail |-> detail]

Valid(r) == r.merchant # "" /\ r.amount > 0 /\ DOMAIN r.account # {}

Validated(r) == IF Valid(r) THEN r ELSE Malformed

-----------------------------------------------------------------------------
(* GET.                                                                       *)
Pair(key, field, value) == [kind |-> "pair", key |-> key, field |-> field, value |-> value]

Optional(key, value, none) == IF value = none THEN {} ELSE {Pair(key, "", value)}
Counted(key, value) == IF value > 0 THEN {Pair(key, "", value)} ELSE {}

\* What EncodeGET writes, each pair once.
PairsOf(r) ==
    {Pair("m", "", r.merchant), Pair("a", "", r.amount)}
    \union {Pair("ac", f, r.account[f]) : f \in DOMAIN r.account}
    \union Optional("l", r.lang, "") \union Optional("c", r.callback, "")
    \union Counted("ct", r.timeout) \union Counted("cr", r.currency)

\* EncodeGET puts the account in the order of its fields; any order reads the same.
Encodes(s, r) ==
    /\ s \in Seq(PairsOf(r))
    /\ \A p \in PairsOf(r) : \E i \in DOMAIN s : s[i] = p
    /\ \A i, j \in DOMAIN s : s[i] = s[j] => i = j

\* A bare text is refused, a blank is passed over, and so is a key nobody knows.
Refused(p) ==
    \/ p.kind = "bare"
    \/ p.kind = "pair" /\ p.key = "ac" /\ p.field = ""
    \/ p.kind = "pair" /\ p.key \in {"a", "ct", "cr"} /\ ~Decimal(p.value)

Places(s, key, field) ==
    {i \in DOMAIN s : s[i].kind = "pair" /\ s[i].key = key /\ s[i].field = field}

\* A later pair overwrites an earlier one of its key.
ReadKey(s, key, field, none) ==
    LET at == Places(s, key, field)
    IN  IF at = {} THEN none ELSE s[CHOOSE i \in at : \A j \in at : j <= i].value

ReadAccount(s) ==
    [f \in {s[i].field : i \in {j \in DOMAIN s : s[j].kind = "pair" /\ s[j].key = "ac"}}
       |-> ReadKey(s, "ac", f, "")]

ReadGET(s) ==
    Receipt(ReadKey(s, "m", "", ""), ReadAccount(s), ReadKey(s, "a", "", 0),
            ReadKey(s, "l", "", ""), ReadKey(s, "c", "", ""), ReadKey(s, "ct", "", 0),
            ReadKey(s, "cr", "", 0), "", "")

\* strings.Cut: a pair ends its key at the first "=", even one of a field's name;
\* the rest of the name goes to the value.
Cut(p) ==
    IF p.kind = "pair" /\ p.key = "ac" /\ p.field \in DOMAIN Equated
    THEN Pair("ac", Equated[p.field].before, [after |-> Equated[p.field].after, value |-> p.value])
    ELSE p

ParseGET(s) ==
    LET read == [i \in DOMAIN s |-> Cut(s[i])]
    IN  IF \E i \in DOMAIN read : Refused(read[i]) THEN Malformed ELSE Validated(ReadGET(read))

-----------------------------------------------------------------------------
(* POST.  A form has named values, and account[...] values by what stands in the    *)
(* brackets; a name it lacks is blank.  A currency has no name in it.  A detail is    *)
(* decoded and not validated, and nothing compares its total with the amount.        *)
Get(form, name) == IF name \in DOMAIN form.named THEN form.named[name] ELSE ""

Unreadable(form) ==
    \/ \E name \in {"amount", "callback_timeout"} :
          Get(form, name) # "" /\ ~Decimal(Get(form, name))
    \/ Get(form, "detail") \notin Details \union {""}

Number(form, name) == IF Decimal(Get(form, name)) THEN Get(form, name) ELSE 0

Account(form) == [f \in DOMAIN form.account \ {""} |-> form.account[f]]

ParsePOST(form) ==
    IF Unreadable(form) THEN Malformed
    ELSE Validated(Receipt(Get(form, "merchant"), Account(form), Number(form, "amount"),
                           Get(form, "lang"), Get(form, "callback"),
                           Number(form, "callback_timeout"), 0, Get(form, "description"),
                           Get(form, "detail")))

-----------------------------------------------------------------------------
(* A receipt EncodeGET can be given and lose nothing of: it has no key for a         *)
(* description or a detail, writes nothing for a negative timeout or currency, and   *)
(* does not escape a "=" in the name of an account field.                          *)
Complete(r) ==
    /\ r = Receipt(r.merchant, r.account, r.amount, r.lang, r.callback, r.timeout,
                   r.currency, "", "")
    /\ r.amount \in Ints /\ r.timeout \in Ints /\ r.currency \in Ints
    /\ r.timeout >= 0 /\ r.currency >= 0
    /\ r.account = [f \in DOMAIN r.account |-> r.account[f]] /\ "" \notin DOMAIN r.account
    /\ DOMAIN r.account \intersect DOMAIN Equated = {}
    /\ Valid(r)

(* The form of a receipt: its named values, and its account.                      *)
FormOf(r) ==
    [named |-> [n \in {"merchant", "amount", "lang", "callback", "callback_timeout"} |->
                   CASE n = "merchant" -> r.merchant [] n = "amount" -> r.amount
                     [] n = "lang" -> r.lang [] n = "callback" -> r.callback
                     [] OTHER -> r.timeout],
     account |-> r.account]
=============================================================================

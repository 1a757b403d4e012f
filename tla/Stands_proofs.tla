---------------------------- MODULE Stands_proofs ----------------------------
(* What is proved of Stands.  A handler fits every call that finds it because the *)
(* address of an id never changes: some assignment of addresses to ids explains    *)
(* the table, the calls under way and the handlers kept, all at once.               *)
EXTENDS Stands, TLAPS

SettingsSet == {"default", "short deadlines", "any payer"}
Chosen == Profiles \union {NoProfile}
ProviderHandlers == [settings : SettingsSet, stand : Ids, merchant : Slugs]
MerchantHandlers == [settings : SettingsSet, kind : Kinds]
Held0 == [service : Services, scope : [id : Ids, row : Forms],
          handler : ProviderHandlers \union MerchantHandlers \union {NoHandler}]
Busy(c) == at[c] # "idle"

Typed ==
    /\ serial \in 0..MaxStands
    /\ stands \in [Ids -> Forms \union {NoRow}]
    /\ at \in [Callers -> {"idle", "lookup", "build", "publish", "serve"}]
    /\ DOMAIN loc = Callers /\ loc = [c \in Callers |-> loc[c]]
    /\ \A c \in Callers : Busy(c) => loc[c] \in Held0
    /\ DOMAIN built = Services /\ built = [s \in Services |-> built[s]]

Addresses == [Ids -> Slugs \union {NoRow}]

\* What the provider, and the merchant, keep for a key.
ProviderEntry(slugOf, id, p) ==
    [key |-> <<id, p>>,
     handler |-> [settings |-> SettingsOf(p), stand |-> id, merchant |-> slugOf[id]]]
MerchantEntry(p, k) ==
    [key |-> <<p, k>>, handler |-> [settings |-> SettingsOf(p), kind |-> k]]

\* An id has one address for good, and one that was not given out has none yet.
Addressed(slugOf) ==
    /\ \A i \in Live : i <= serial /\ stands[i].slug = slugOf[i]
    /\ \A c \in Callers : Busy(c) =>
          loc[c].scope.id <= serial /\ loc[c].scope.row.slug = slugOf[loc[c].scope.id]
    /\ \A e \in built[Provider] :
          \E id \in Ids, p \in Chosen : id <= serial /\ e = ProviderEntry(slugOf, id, p)

Fitting ==
    /\ \A e \in built[Merchant] : \E p \in Chosen, k \in Kinds : e = MerchantEntry(p, k)
    /\ \A c \in Callers : at[c] \in {"build", "publish", "serve"} =>
          loc[c].handler = HandlerFor(loc[c].service, loc[c].scope)

\* The scheduler has something to run whenever a handler of the provider's is around.
Attended ==
    runner = NoHandler =>
        /\ built[Provider] = {}
        /\ \A c \in Callers : at[c] \in {"publish", "serve"} => loc[c].service # Provider

IInv == Typed /\ Fitting /\ Attended /\ \E slugOf \in Addresses : Addressed(slugOf)

-----------------------------------------------------------------------------
LEMMA SettingsInSet == ASSUME NEW p \in Chosen PROVE SettingsOf(p) \in SettingsSet
  <1>1. CASE p = NoProfile
    BY <1>1 DEF SettingsOf, SettingsSet
  <1>2. CASE p # NoProfile
    <2>1. Shipped[p] \in DOMAIN Seeds
      <3>1. Shipped \in Seq(DOMAIN Seeds) /\ p \in DOMAIN Shipped
        BY <1>2, StandsAssumption DEF Chosen, Profiles
      <3> HIDE DEF Seeds
      <3> QED BY <3>1
    <2>2. \A x \in DOMAIN Seeds : Seeds[x].settings \in SettingsSet
      <3>1. DOMAIN Seeds = {"clean", "slow", "flaky", "errors", "timeout", "strict", "walkin"}
        BY DEF Seeds
      <3>2. /\ Seeds["clean"].settings = "default" /\ Seeds["slow"].settings = "default"
            /\ Seeds["flaky"].settings = "default" /\ Seeds["errors"].settings = "default"
            /\ Seeds["timeout"].settings = "default"
            /\ Seeds["strict"].settings = "short deadlines"
            /\ Seeds["walkin"].settings = "any payer"
        BY DEF Seeds
      <3> QED BY <3>1, <3>2 DEF SettingsSet
    <2> QED BY <1>2, <2>1, <2>2 DEF SettingsOf
  <1> QED BY <1>1, <1>2

(* A handler built for a call is one of its service's, and the provider's is one.   *)
LEMMA HandlerKinds ==
    ASSUME NEW s \in Services, NEW scope \in [id : Ids, row : Forms]
    PROVE  /\ scope.row.profile \in Chosen /\ scope.row.kind \in Kinds
           /\ scope.row.slug \in Slugs
           /\ HandlerFor(s, scope) \in ProviderHandlers \union MerchantHandlers
           /\ s = Provider => HandlerFor(s, scope) \in ProviderHandlers
  <1>1. scope.row \in Forms /\ scope.id \in Ids
    OBVIOUS
  <1>2. /\ scope.row.profile \in Chosen /\ scope.row.kind \in Kinds
        /\ scope.row.slug \in Slugs
    BY <1>1, StandsAssumption DEF Chosen, Profiles, NoProfile
  <1>3. SettingsOf(scope.row.profile) \in SettingsSet
    BY <1>2, SettingsInSet
  <1> QED BY <1>1, <1>2, <1>3 DEF HandlerFor, ProviderHandlers, MerchantHandlers

(* What is found under a call's key is what would be built for it.                *)
LEMMA FoundFits ==
    ASSUME NEW slugOf, Addressed(slugOf), Fitting, Typed,
           NEW c \in Callers, Busy(c),
           NEW e \in Held(loc[c].service, Key(loc[c].service, loc[c].scope))
    PROVE  e.handler = HandlerFor(loc[c].service, loc[c].scope)
  <1> DEFINE s == loc[c].service
             scope == loc[c].scope
  <1>1. s \in Services /\ scope \in [id : Ids, row : Forms]
    BY DEF Typed, Held0
  <1>2. e \in built[s] /\ e.key = Key(s, scope)
    BY DEF Held
  <1>3. CASE s = Provider
    <2>1. PICK id \in Ids, p \in Chosen : e = ProviderEntry(slugOf, id, p)
      BY <1>2, <1>3 DEF Addressed
    <2>2. <<id, p>> = <<scope.id, scope.row.profile>>
      BY <1>2, <1>3, <2>1 DEF ProviderEntry, Key
    <2>3. id = scope.id /\ p = scope.row.profile
      BY <2>2
    <2>4. scope.row.slug = slugOf[scope.id]
      BY DEF Addressed
    <2> QED BY <1>3, <2>1, <2>3, <2>4 DEF ProviderEntry, HandlerFor
  <1>4. CASE s = Merchant
    <2>1. PICK p \in Chosen, k \in Kinds : e = MerchantEntry(p, k)
      BY <1>2, <1>4 DEF Fitting
    <2>2. <<p, k>> = <<scope.row.profile, scope.row.kind>>
      BY <1>2, <1>4, <2>1 DEF MerchantEntry, Key, Provider, Merchant
    <2>3. p = scope.row.profile /\ k = scope.row.kind
      BY <2>2
    <2> QED BY <1>4, <2>1, <2>3 DEF MerchantEntry, HandlerFor, Provider, Merchant
  <1> QED BY <1>1, <1>3, <1>4 DEF Services

LEMMA IInvInit == Init => IInv
  <1> SUFFICES ASSUME Init PROVE IInv
    OBVIOUS
  <1>1. Typed
    <2>1. MaxStands \in Nat
      BY StandsAssumption
    <2>2. serial \in 0..MaxStands /\ stands \in [Ids -> Forms \union {NoRow}]
      BY <2>1 DEF Init
    <2>3. at \in [Callers -> {"idle", "lookup", "build", "publish", "serve"}]
      BY DEF Init
    <2>4. DOMAIN loc = Callers /\ loc = [c \in Callers |-> loc[c]]
      BY DEF Init
    <2>5. DOMAIN built = Services /\ built = [s \in Services |-> built[s]]
      BY DEF Init
    <2>6. \A c \in Callers : ~Busy(c)
      BY DEF Init, Busy
    <2> QED BY <2>2, <2>3, <2>4, <2>5, <2>6 DEF Typed
  <1>2. Live = {} /\ \A s \in Services : built[s] = {}
    BY DEF Init, Live
  <1>3. Fitting /\ Attended
    BY <1>2 DEF Init, Fitting, Attended, Services
  <1>4. \E slugOf \in Addresses : Addressed(slugOf)
    <2>1. [i \in Ids |-> NoRow] \in Addresses
      BY DEF Addresses
    <2> QED BY <2>1, <1>2 DEF Init, Addressed, Busy, Services
  <1> QED BY <1>1, <1>3, <1>4 DEF IInv

-----------------------------------------------------------------------------
(* The steps.  A step that moves one call leaves the others as they are.          *)
LEMMA StepResolve ==
    ASSUME IInv, NEW c \in Callers, NEW s \in Services, NEW i \in Ids, Resolve(c, s, i)
    PROVE  IInv'
  <1> DEFINE h == [service |-> s, scope |-> Scoped(i), handler |-> NoHandler]
  <1>1. /\ i \in Live /\ stands[i] \in Forms
        /\ at' = [at EXCEPT ![c] = "lookup"] /\ loc' = [loc EXCEPT ![c] = h]
        /\ UNCHANGED <<profiles, rules, stands, serial, built, runner>>
    BY DEF Resolve, Goto, Live, IInv, Typed, tables, caches
  <1>2. h \in Held0
    BY <1>1 DEF Scoped, Held0
  <1>3. Typed'
    BY <1>1, <1>2 DEF IInv, Typed, Busy
  <1>4. Fitting' /\ Attended'
    BY <1>1 DEF IInv, Typed, Fitting, Attended
  <1>5. ASSUME NEW slugOf, Addressed(slugOf) PROVE Addressed(slugOf)'
    <2>1. Scoped(i).id <= serial /\ Scoped(i).row.slug = slugOf[Scoped(i).id]
      BY <1>1, <1>5 DEF Addressed, Scoped
    <2> QED BY <1>1, <1>5, <2>1 DEF IInv, Typed, Addressed, Busy, Live
  <1> QED BY <1>3, <1>4, <1>5 DEF IInv

LEMMA StepLookup == ASSUME IInv, NEW c \in Callers, Lookup(c) PROVE IInv'
  <1> DEFINE s == loc[c].service
             scope == loc[c].scope
             found == Held(s, Key(s, scope))
             h == HandlerFor(s, scope)
  <1>1. /\ at[c] = "lookup" /\ loc[c] \in Held0
        /\ UNCHANGED <<profiles, rules, stands, serial, built, runner>>
    BY DEF Lookup, Untouched, IInv, Typed, Busy, tables, caches
  <1>2. s \in Services /\ scope \in [id : Ids, row : Forms]
    BY <1>1 DEF Held0
  <1>3. PICK slugOf \in Addresses : Addressed(slugOf)
    BY DEF IInv
  <1>4. \A e \in found : e.handler = h
    BY <1>1, <1>3, FoundFits DEF IInv, Busy
  <1>5. /\ loc' = [loc EXCEPT ![c] = [loc[c] EXCEPT !.handler = h]]
        /\ \/ at' = [at EXCEPT ![c] = "build"]
           \/ at' = [at EXCEPT ![c] = "serve"] /\ found # {}
    <2> HIDE DEF h
    <2>1. CASE Goto(c, "build", [loc[c] EXCEPT !.handler = h])
      BY <2>1 DEF Goto
    <2>2. ASSUME NEW e \in found, Goto(c, "serve", [loc[c] EXCEPT !.handler = e.handler])
          PROVE  /\ loc' = [loc EXCEPT ![c] = [loc[c] EXCEPT !.handler = h]]
                 /\ at' = [at EXCEPT ![c] = "serve"] /\ found # {}
      BY <2>2, <1>4 DEF Goto
    <2>3. \/ Goto(c, "build", [loc[c] EXCEPT !.handler = h])
          \/ \E e \in found : Goto(c, "serve", [loc[c] EXCEPT !.handler = e.handler])
      BY DEF Lookup, h
    <2> QED BY <2>1, <2>2, <2>3
  <1>6. h \in ProviderHandlers \union MerchantHandlers
    BY <1>2, HandlerKinds
  <1> HIDE DEF h
  <1>7. /\ loc'[c] \in Held0 /\ loc'[c].service = s /\ loc'[c].scope = scope
        /\ loc'[c].handler = h
        /\ \A d \in Callers \ {c} : loc'[d] = loc[d] /\ at'[d] = at[d]
    BY <1>1, <1>5, <1>6 DEF IInv, Typed, Held0
  <1>8. Typed'
    BY <1>1, <1>5, <1>7 DEF IInv, Typed, Busy
  <1>9. Fitting'
    <2>1. loc'[c].handler = HandlerFor(loc'[c].service, loc'[c].scope)
      BY <1>7 DEF h
    <2>2. \A t, o : HandlerFor(t, o)' = HandlerFor(t, o)
      BY DEF HandlerFor, SettingsOf
    <2> QED BY <1>1, <1>7, <2>1 DEF IInv, Fitting
  <1>10. Attended'
    <2>1. ASSUME s = Provider, at'[c] = "serve" PROVE runner # NoHandler
      <3>1. built[Provider] # {}
        BY <2>1, <1>1, <1>5 DEF Held, IInv, Typed
      <3> QED BY <3>1 DEF IInv, Attended
    <2> QED BY <1>1, <1>7, <2>1, <1>5 DEF IInv, Typed, Attended
  <1>11. Addressed(slugOf)'
    BY <1>1, <1>3, <1>7 DEF Addressed, Busy, Live
  <1> QED BY <1>8, <1>9, <1>10, <1>11 DEF IInv

LEMMA StepAttach == ASSUME IInv, NEW c \in Callers, Attach(c) PROVE IInv'
  <1>1. /\ at[c] = "build" /\ loc[c].service = Provider /\ runner' = loc[c].handler
        /\ at' = [at EXCEPT ![c] = "publish"] /\ loc' = loc
        /\ UNCHANGED <<profiles, rules, stands, serial, built>>
    <2>1. loc' = [loc EXCEPT ![c] = loc[c]]
      BY DEF Attach, Goto
    <2> QED BY <2>1 DEF Attach, Attached, Goto, Untouched, tables, IInv, Typed
  <1>2. loc[c].handler # NoHandler
    <2>1. loc[c] \in Held0
      BY <1>1 DEF IInv, Typed, Busy
    <2>2. loc[c].scope \in [id : Ids, row : Forms] /\ Provider \in Services
      BY <2>1 DEF Held0, Services
    <2>3. loc[c].handler = HandlerFor(Provider, loc[c].scope)
      BY <1>1 DEF IInv, Fitting
    <2>4. loc[c].handler \in ProviderHandlers
      BY <2>2, <2>3, HandlerKinds
    <2>5. NoHandler \notin ProviderHandlers
      BY StandsAssumption DEF ProviderHandlers, SettingsSet, Ids
    <2> QED BY <2>4, <2>5
  <1>0. /\ at' \in [Callers -> {"idle", "lookup", "build", "publish", "serve"}]
        /\ at'[c] = "publish" /\ \A d \in Callers \ {c} : at'[d] = at[d]
    BY <1>1 DEF IInv, Typed
  <1>3. Typed'
    BY <1>0, <1>1 DEF IInv, Typed, Busy
  <1>4. Fitting' /\ Attended'
    <2>1. \A p : SettingsOf(p)' = SettingsOf(p)
      BY DEF SettingsOf
    <2>2. \A d \in Callers : HandlerFor(loc[d].service, loc[d].scope)'
                                = HandlerFor(loc[d].service, loc[d].scope)
      BY <1>1, <2>1 DEF HandlerFor
    <2>3. Fitting'
      BY <1>0, <1>1, <2>1, <2>2 DEF IInv, Fitting, MerchantEntry
    <2>4. Attended'
      BY <1>1, <1>2 DEF Attended
    <2> QED BY <2>3, <2>4
  <1>5. ASSUME NEW slugOf, Addressed(slugOf) PROVE Addressed(slugOf)'
    <2>1. Live' = Live
      BY <1>1 DEF Live
    <2>2. \A i \in Live' : i <= serial' /\ stands'[i].slug = slugOf[i]
      BY <1>1, <1>5, <2>1 DEF Addressed
    <2>3. \A d \in Callers : Busy(d)' => Busy(d)
      BY <1>0, <1>1 DEF Busy
    <2>4. \A d \in Callers : Busy(d)' =>
            loc'[d].scope.id <= serial' /\ loc'[d].scope.row.slug = slugOf[loc'[d].scope.id]
      BY <1>1, <1>5, <2>3 DEF Addressed
    <2>5. \A e \in built'[Provider] :
            \E id \in Ids, p \in Chosen : id <= serial' /\ e = ProviderEntry(slugOf, id, p)
      BY <1>1, <1>5 DEF Addressed
    <2> QED BY <2>2, <2>4, <2>5 DEF Addressed, ProviderEntry, SettingsOf
  <1> QED BY <1>3, <1>4, <1>5, <1>1 DEF IInv

LEMMA StepPublish == ASSUME IInv, NEW c \in Callers, Publish(c) PROVE IInv'
  <1> DEFINE s == loc[c].service
             scope == loc[c].scope
             key == Key(s, scope)
             h == loc[c].handler
             entry == [key |-> key, handler |-> h]
  <1>1. /\ at[c] \in {"build", "publish"} /\ (at[c] = "build" => s = Merchant)
        /\ built' = [built EXCEPT ![s] = (built[s] \ Held(s, key)) \union {entry}]
        /\ at' = [at EXCEPT ![c] = "serve"] /\ loc' = loc
        /\ UNCHANGED <<profiles, rules, stands, serial, runner>>
    <2>1. loc' = [loc EXCEPT ![c] = loc[c]]
      BY DEF Publish, Goto
    <2>2. built' = [built EXCEPT ![s] = (built[s] \ Held(s, key)) \union {entry}]
      BY DEF Publish
    <2> HIDE DEF key, h
    <2> QED BY <2>1, <2>2 DEF Publish, Goto, Untouched, tables, IInv, Typed
  <1>2. s \in Services /\ scope \in [id : Ids, row : Forms] /\ h = HandlerFor(s, scope)
    BY <1>1 DEF IInv, Typed, Fitting, Busy, Held0
  <1>3. scope.row.profile \in Chosen /\ scope.row.kind \in Kinds /\ scope.id \in Ids
    BY <1>2, HandlerKinds
  <1>4. PICK slugOf \in Addresses : Addressed(slugOf)
    BY DEF IInv
  <1>5. scope.id <= serial /\ scope.row.slug = slugOf[scope.id]
    BY <1>1, <1>4 DEF Addressed, Busy
  <1>6. s = Provider => entry = ProviderEntry(slugOf, scope.id, scope.row.profile)
    BY <1>2, <1>5 DEF ProviderEntry, Key, HandlerFor
  <1>7. s = Merchant => entry = MerchantEntry(scope.row.profile, scope.row.kind)
    BY <1>2 DEF MerchantEntry, Key, HandlerFor, Provider, Merchant
  <1> HIDE DEF entry, key, h
  <1>8. \A t \in Services : \A e \in built'[t] : e \in built[t] \/ (t = s /\ e = entry)
    BY <1>1, <1>2 DEF IInv, Typed
  <1>9. Provider # Merchant /\ Provider \in Services /\ Merchant \in Services
    BY DEF Provider, Merchant, Services
  <1>10. Typed'
    <2>1. DOMAIN built' = Services /\ built' = [t \in Services |-> built'[t]]
      BY <1>1 DEF IInv, Typed
    <2> QED BY <1>1, <2>1 DEF IInv, Typed, Busy
  <1>11. Fitting'
    <2>1. \A e \in built'[Merchant] : \E p \in Chosen, k \in Kinds : e = MerchantEntry(p, k)
      BY <1>3, <1>7, <1>8, <1>9 DEF IInv, Fitting
    <2>2. \A d \in Callers : at'[d] \in {"build", "publish", "serve"} =>
             at[d] \in {"build", "publish", "serve"}
      BY <1>1 DEF IInv, Typed
    <2> QED BY <1>1, <2>1, <2>2 DEF IInv, Fitting, MerchantEntry, HandlerFor, SettingsOf
  <1>12. Attended'
    <2>1. CASE s = Provider
      <3>1. at[c] = "publish" /\ runner # NoHandler
        BY <1>1, <1>9, <2>1 DEF IInv, Attended
      <3> QED BY <1>1, <3>1 DEF Attended
    <2>2. CASE s = Merchant
      <3>1. built'[Provider] = built[Provider]
        BY <1>1, <1>9, <2>2 DEF IInv, Typed
      <3> QED BY <1>1, <1>9, <2>2, <3>1 DEF IInv, Typed, Attended
    <2> QED BY <2>1, <2>2, <1>2 DEF Services
  <1>13. Addressed(slugOf)'
    <2>1. \A e \in built'[Provider] :
             \E id \in Ids, p \in Chosen : id <= serial /\ e = ProviderEntry(slugOf, id, p)
      BY <1>3, <1>4, <1>5, <1>6, <1>8, <1>9 DEF Addressed
    <2>2. \A d \in Callers : at'[d] # "idle" => at[d] # "idle"
      BY <1>1 DEF IInv, Typed
    <2> QED BY <1>1, <1>4, <2>1, <2>2 DEF Addressed, Busy, Live, ProviderEntry, SettingsOf
  <1> QED BY <1>4, <1>10, <1>11, <1>12, <1>13 DEF IInv

(* Calls end one at a time, or all those of a service that ends with its cache.      *)
LEMMA StepEnds ==
    ASSUME IInv, NEW ended \in SUBSET Callers, NEW emptied \in SUBSET Services,
           at' = [c \in Callers |-> IF c \in ended THEN "idle" ELSE at[c]],
           loc' = [c \in Callers |-> IF c \in ended THEN NoRow ELSE loc[c]],
           built' = [s \in Services |-> IF s \in emptied THEN {} ELSE built[s]],
           runner' = IF Provider \in emptied THEN NoHandler ELSE runner,
           \A c \in Callers : Busy(c) /\ loc[c].service \in emptied => c \in ended,
           UNCHANGED <<stands, serial>>
    PROVE  IInv'
  <1>1. Typed'
    <2>1. DOMAIN loc' = Callers /\ loc' = [c \in Callers |-> loc'[c]]
      OBVIOUS
    <2>2. DOMAIN built' = Services /\ built' = [s \in Services |-> built'[s]]
      OBVIOUS
    <2> QED BY <2>1, <2>2 DEF IInv, Typed, Busy
  <1>2. \A c \in Callers : at'[c] # "idle" =>
           c \notin ended /\ at'[c] = at[c] /\ loc'[c] = loc[c]
    OBVIOUS
  <1>3. Provider \in Services /\ Merchant \in Services
    BY DEF Services
  <1>4. \A s \in Services : built'[s] \subseteq built[s]
    OBVIOUS
  <1>5. Fitting'
    BY <1>2, <1>3, <1>4 DEF IInv, Fitting, MerchantEntry, HandlerFor, SettingsOf
  <1>6. Attended'
    BY <1>2, <1>3, <1>4 DEF IInv, Attended, Busy
  <1>7. ASSUME NEW slugOf, Addressed(slugOf) PROVE Addressed(slugOf)'
    BY <1>2, <1>3, <1>4, <1>7 DEF Addressed, Busy, Live, ProviderEntry, SettingsOf
  <1> QED BY <1>1, <1>5, <1>6, <1>7 DEF IInv

LEMMA StepCallEnds ==
    ASSUME IInv, NEW c \in Callers, Ends(c), UNCHANGED <<stands, serial, built, runner>>
    PROVE  IInv'
  <1> DEFINE ended == {c}
             none == {}
  <1>1. /\ at' = [d \in Callers |-> IF d \in ended THEN "idle" ELSE at[d]]
        /\ loc' = [d \in Callers |-> IF d \in ended THEN NoRow ELSE loc[d]]
        /\ ended \in SUBSET Callers
    BY DEF Ends, Goto, IInv, Typed
  <1>2. /\ built' = [t \in Services |-> IF t \in none THEN {} ELSE built[t]]
        /\ none \in SUBSET Services
        /\ runner' = IF Provider \in none THEN NoHandler ELSE runner
        /\ \A d \in Callers : Busy(d) /\ loc[d].service \in none => d \in ended
    BY DEF IInv, Typed
  <1> HIDE DEF ended, none
  <1> QED BY <1>1, <1>2, StepEnds

LEMMA StepRestart == ASSUME IInv, NEW s \in Services, Restart(s) PROVE IInv'
  <1> DEFINE ended == {c \in Callers : at[c] # "idle" /\ loc[c].service = s}
             emptied == {s}
  <1>1. /\ at' = [c \in Callers |-> IF c \in ended THEN "idle" ELSE at[c]]
        /\ loc' = [c \in Callers |-> IF c \in ended THEN NoRow ELSE loc[c]]
        /\ UNCHANGED <<stands, serial>>
        /\ ended \in SUBSET Callers
    BY DEF Restart, tables
  <1>2. /\ built' = [t \in Services |-> IF t \in emptied THEN {} ELSE built[t]]
        /\ emptied \in SUBSET Services
    BY DEF Restart, IInv, Typed
  <1>3. runner' = IF Provider \in emptied THEN NoHandler ELSE runner
    BY DEF Restart
  <1>4. \A c \in Callers : Busy(c) /\ loc[c].service \in emptied => c \in ended
    BY DEF Busy
  <1> HIDE DEF ended, emptied
  <1> QED BY <1>1, <1>2, <1>3, <1>4, StepEnds

LEMMA StepCreate == ASSUME IInv, NEW form \in Forms, CreateSandbox(form) PROVE IInv'
  <1>1. /\ serial < MaxStands /\ serial' = serial + 1
        /\ stands' = [stands EXCEPT ![serial + 1] = form]
        /\ UNCHANGED <<built, runner, at, loc>>
    BY DEF CreateSandbox, Edit, caches
  <1>2. serial \in Nat /\ MaxStands \in Nat /\ serial' \in Ids /\ form.slug \in Slugs
    <2>1. MaxStands \in Nat /\ form.slug \in Slugs
      BY StandsAssumption
    <2>2. serial \in 0..MaxStands
      BY DEF IInv, Typed
    <2> QED BY <1>1, <2>1, <2>2 DEF Ids
  <1>3. Typed'
    BY <1>1, <1>2 DEF IInv, Typed, Busy
  <1>4. Fitting' /\ Attended'
    BY <1>1 DEF IInv, Fitting, Attended, MerchantEntry, HandlerFor, SettingsOf
  <1>5. PICK slugOf \in Addresses : Addressed(slugOf)
    BY DEF IInv
  <1>6. PICK given \in Addresses :
            /\ given[serial + 1] = form.slug
            /\ \A i \in Ids : i <= serial => given[i] = slugOf[i]
    <2> DEFINE after == [slugOf EXCEPT ![serial + 1] = form.slug]
    <2>1. /\ after \in Addresses /\ after[serial + 1] = form.slug
          /\ \A i \in Ids : i <= serial => after[i] = slugOf[i]
      BY <1>1, <1>2, <1>5 DEF Addresses, Ids
    <2> QED BY <2>1
  <1>7. \A i \in Live' : i <= serial' /\ stands'[i].slug = given[i]
    <2> SUFFICES ASSUME NEW i \in Live' PROVE i <= serial' /\ stands'[i].slug = given[i]
      OBVIOUS
    <2>1. i \in Ids /\ i \in Int
      BY DEF Live, Ids
    <2>2. CASE i = serial + 1
      BY <2>2, <1>1, <1>2, <1>6 DEF IInv, Typed
    <2>3. CASE i # serial + 1
      <3>1. stands'[i] = stands[i] /\ i \in Live
        BY <2>1, <2>3, <1>1 DEF IInv, Typed, Live
      <3>2. i <= serial /\ stands[i].slug = slugOf[i]
        BY <3>1, <1>5 DEF Addressed
      <3> QED BY <2>1, <3>1, <3>2, <1>1, <1>2, <1>6
    <2> QED BY <2>2, <2>3
  <1>8. \A c \in Callers : Busy(c)' =>
           loc'[c].scope.id <= serial' /\ loc'[c].scope.row.slug = given[loc'[c].scope.id]
    <2> SUFFICES ASSUME NEW c \in Callers, Busy(c)
                 PROVE  /\ loc[c].scope.id <= serial'
                        /\ loc[c].scope.row.slug = given[loc[c].scope.id]
      BY <1>1 DEF Busy
    <2>1. loc[c].scope.id \in Ids
      BY DEF IInv, Typed, Held0
    <2>2. loc[c].scope.id <= serial /\ loc[c].scope.row.slug = slugOf[loc[c].scope.id]
      BY <1>5 DEF Addressed
    <2> QED BY <2>1, <2>2, <1>1, <1>2, <1>6 DEF Ids
  <1>9. \A e \in built'[Provider] :
           \E id \in Ids, p \in Chosen : id <= serial' /\ e = ProviderEntry(given, id, p)
    <2> SUFFICES ASSUME NEW e \in built[Provider]
                 PROVE  \E id \in Ids, p \in Chosen :
                           id <= serial' /\ e = ProviderEntry(given, id, p)
      BY <1>1
    <2>1. PICK id \in Ids, p \in Chosen : id <= serial /\ e = ProviderEntry(slugOf, id, p)
      BY <1>5 DEF Addressed
    <2>2. id <= serial' /\ given[id] = slugOf[id]
      BY <2>1, <1>1, <1>2, <1>6 DEF Ids
    <2> QED BY <2>1, <2>2 DEF ProviderEntry
  <1>10. Addressed(given)'
    BY <1>7, <1>8, <1>9 DEF Addressed, ProviderEntry, SettingsOf
  <1> QED BY <1>3, <1>4, <1>6, <1>10 DEF IInv

(* A stand edited under its address, or deleted.                                  *)
LEMMA StepRow ==
    ASSUME IInv, NEW i \in Ids, i \in Live, NEW row \in Forms \union {NoRow},
           row # NoRow => row.slug = stands[i].slug,
           stands' = [stands EXCEPT ![i] = row],
           UNCHANGED <<serial, built, runner, at, loc>>
    PROVE  IInv'
  <1>1. Typed'
    BY DEF IInv, Typed, Busy
  <1>2. Fitting' /\ Attended'
    BY DEF IInv, Fitting, Attended, MerchantEntry, HandlerFor, SettingsOf
  <1>3. ASSUME NEW slugOf, Addressed(slugOf) PROVE Addressed(slugOf)'
    <2>1. \A j \in Live' : j \in Live /\ stands'[j].slug = stands[j].slug
      BY DEF IInv, Typed, Live
    <2> QED BY <1>3, <2>1 DEF Addressed, Busy, ProviderEntry, SettingsOf
  <1> QED BY <1>1, <1>2, <1>3 DEF IInv

LEMMA StepElsewhere ==
    ASSUME IInv, UNCHANGED <<stands, serial, built, runner, at, loc>> PROVE IInv'
  <1>1. Typed' /\ Fitting' /\ Attended'
    BY DEF IInv, Typed, Busy, Fitting, Attended, MerchantEntry, HandlerFor, SettingsOf
  <1>2. ASSUME NEW slugOf, Addressed(slugOf) PROVE Addressed(slugOf)'
    BY <1>2 DEF Addressed, Busy, Live, ProviderEntry, SettingsOf
  <1> QED BY <1>1, <1>2 DEF IInv

LEMMA IInvNext == ASSUME IInv, [Next]_vars PROVE IInv'
  <1>1. ASSUME NEW c \in Callers, NEW s \in Services, NEW i \in Ids, Resolve(c, s, i) PROVE IInv'
    BY <1>1, StepResolve
  <1>2. ASSUME NEW c \in Callers,
               Lookup(c) \/ Attach(c) \/ Publish(c) \/ Serve(c) \/ LoadFails(c)
        PROVE  IInv'
    <2>1. CASE Serve(c) \/ LoadFails(c)
      BY <2>1, StepCallEnds DEF Serve, LoadFails, Untouched, caches, tables
    <2> QED BY <1>2, <2>1, StepLookup, StepAttach, StepPublish
  <1>3. ASSUME NEW s \in Services, Restart(s) PROVE IInv'
    BY <1>3, StepRestart
  <1>4. ASSUME NEW k \in Consoles, SeedProfile(k) \/ SeedRule(k) \/ SeedEnds(k) PROVE IInv'
    BY <1>4, StepElsewhere DEF SeedProfile, SeedRule, SeedEnds, caches, tables
  <1>5. ASSUME NEW form \in Forms, CreateSandbox(form) PROVE IInv'
    BY <1>5, StepCreate
  <1>6. ASSUME NEW form \in Forms, NEW i \in Ids, UpdateSandbox(i, form) PROVE IInv'
    BY <1>6, StepRow DEF UpdateSandbox, Edit, caches
  <1>7. ASSUME NEW i \in Ids, DeleteSandbox(i) PROVE IInv'
    BY <1>7, StepRow DEF DeleteSandbox, Edit, caches
  <1>8. CASE UNCHANGED vars
    BY <1>8, StepElsewhere DEF vars
  <1> QED BY <1>1, <1>2, <1>3, <1>4, <1>5, <1>6, <1>7, <1>8 DEF Next

(* A call is served as its stand was when it was resolved, whatever is edited,     *)
(* deleted, recreated, restarted or built meanwhile (handler.go:22).               *)
THEOREM ServedAsResolvedSafety == Spec => []ServedAsResolved
  <1>1. IInv => ServedAsResolved
    <2> SUFFICES ASSUME IInv, NEW c \in Serving
                 PROVE  LET h == loc[c].handler
                            s == loc[c].scope
                        IN  /\ h.settings = SettingsOf(s.row.profile)
                            /\ IF loc[c].service = Provider
                               THEN h.stand = s.id /\ h.merchant = s.row.slug
                               ELSE h.kind = s.row.kind
      BY DEF ServedAsResolved
    <2>1. loc[c].handler = HandlerFor(loc[c].service, loc[c].scope)
      BY DEF Serving, IInv, Fitting
    <2> QED BY <2>1 DEF HandlerFor
  <1> QED BY <1>1, IInvInit, IInvNext, PTL DEF Spec

(* A payment that is served finds something for the scheduler to run               *)
(* (handler.go:127).                                                              *)
THEOREM StepsFindARunnerSafety == Spec => []StepsFindARunner
  <1>1. IInv => StepsFindARunner
    BY DEF IInv, Attended, Serving, StepsFindARunner
  <1> QED BY <1>1, IInvInit, IInvNext, PTL DEF Spec

-----------------------------------------------------------------------------
(* Seeding.  Whoever inserts a profile is the one that owes its rules.              *)
Owes(k, p) == seeding[k].left > 0 /\ seeding[k].next = p

SeedTyped ==
    /\ profiles \subseteq Profiles /\ cut \subseteq profiles
    /\ rules \in [Profiles -> Nat]
    /\ seeding \in [Consoles -> [next : 1..(Len(Shipped) + 1), left : Nat]]

SeedInv ==
    /\ SeedTyped
    /\ \A k \in Consoles, p \in Profiles : p < seeding[k].next => p \in profiles
    /\ \A k \in Consoles, p \in Profiles : Owes(k, p) =>
          p \in profiles \ cut /\ rules[p] + seeding[k].left = RulesOf(p)
    /\ \A k \in Consoles : seeding[k].left > 0 => Seeding(k)
    /\ \A k, j \in Consoles, p \in Profiles : Owes(k, p) /\ Owes(j, p) => k = j
    /\ \A p \in Profiles \ profiles : rules[p] = 0
    /\ \A p \in profiles \ cut : rules[p] = RulesOf(p) \/ \E k \in Consoles : Owes(k, p)
    /\ \A p \in Profiles : rules[p] <= RulesOf(p)

LEMMA RulesNat ==
    /\ Len(Shipped) \in Nat /\ Profiles = 1..Len(Shipped)
    /\ \A p \in Profiles : RulesOf(p) \in Nat
  <1>1. Shipped \in Seq(DOMAIN Seeds)
    BY StandsAssumption
  <1>2. \A x \in DOMAIN Seeds : Seeds[x].rules \in Nat
    <2>1. DOMAIN Seeds = {"clean", "slow", "flaky", "errors", "timeout", "strict", "walkin"}
      BY DEF Seeds
    <2>2. /\ Seeds["clean"].rules = 0 /\ Seeds["slow"].rules = 1 /\ Seeds["flaky"].rules = 2
          /\ Seeds["errors"].rules = 6 /\ Seeds["timeout"].rules = 1
          /\ Seeds["strict"].rules = 1 /\ Seeds["walkin"].rules = 0
      BY DEF Seeds
    <2> QED BY <2>1, <2>2
  <1> HIDE DEF Seeds
  <1>3. \A p \in DOMAIN Shipped : Shipped[p] \in DOMAIN Seeds
    BY <1>1
  <1>4. Len(Shipped) \in Nat /\ DOMAIN Shipped = 1..Len(Shipped)
    BY <1>1
  <1> QED BY <1>2, <1>3, <1>4 DEF Profiles, RulesOf

LEMMA SeedInit == Init => SeedInv
  BY RulesNat DEF Init, SeedInv, SeedTyped, Owes

LEMMA StepSeedProfile == ASSUME SeedInv, NEW k \in Consoles, SeedProfile(k) PROVE SeedInv'
  <1> DEFINE p == seeding[k].next
             left == IF p \in profiles THEN 0 ELSE RulesOf(p)
  <1>1. /\ p \in Profiles /\ seeding[k].left = 0 /\ profiles' = profiles \union {p}
        /\ seeding' = [seeding EXCEPT ![k] =
                         [next |-> p + (IF left = 0 THEN 1 ELSE 0), left |-> left]]
        /\ left \in Nat /\ UNCHANGED <<rules, cut>>
    BY RulesNat DEF SeedProfile, Advance, Seeding, SeedInv, SeedTyped
  <1>2. /\ \A j \in Consoles \ {k} : seeding'[j] = seeding[j]
        /\ seeding'[k].left = left
        /\ seeding'[k].next = p + (IF left = 0 THEN 1 ELSE 0)
    BY <1>1 DEF SeedInv, SeedTyped
  <1>3. SeedTyped'
    <2>1. [next |-> p + (IF left = 0 THEN 1 ELSE 0), left |-> left]
             \in [next : 1..(Len(Shipped) + 1), left : Nat]
      <3> HIDE DEF p, left
      <3>1. p + (IF left = 0 THEN 1 ELSE 0) \in 1..(Len(Shipped) + 1)
        BY <1>1, RulesNat
      <3> QED BY <3>1, <1>1
    <2> HIDE DEF p, left
    <2> QED BY <1>1, <2>1 DEF SeedInv, SeedTyped
  <1>4. \A j \in Consoles, q \in Profiles :
           Owes(j, q)' <=> (j # k /\ Owes(j, q)) \/ (j = k /\ left > 0 /\ q = p)
    BY <1>1, <1>2, RulesNat DEF Owes
  <1>5. left > 0 => p \notin profiles /\ left = RulesOf(p) /\ rules[p] = 0
    BY <1>1 DEF SeedInv
  <1>6. \A j \in Consoles, q \in Profiles : q < seeding'[j].next => q \in profiles'
    BY <1>1, <1>2, RulesNat DEF SeedInv, SeedTyped
  <1>7. \A j \in Consoles, q \in Profiles : Owes(j, q)' =>
           q \in profiles' \ cut' /\ rules'[q] + seeding'[j].left = RulesOf(q)
    <2> SUFFICES ASSUME NEW j \in Consoles, NEW q \in Profiles, Owes(j, q)'
                 PROVE  q \in profiles' \ cut' /\ rules'[q] + seeding'[j].left = RulesOf(q)
      OBVIOUS
    <2>1. CASE j # k /\ Owes(j, q)
      BY <2>1, <1>1, <1>2 DEF SeedInv
    <2>2. CASE j = k /\ left > 0 /\ q = p
      BY <2>2, <1>1, <1>2, <1>5, RulesNat DEF SeedInv, SeedTyped
    <2> QED BY <2>1, <2>2, <1>4
  <1>8. \A j \in Consoles : seeding'[j].left > 0 => Seeding(j)'
    BY <1>1, <1>2, RulesNat DEF SeedInv, Seeding
  <1>9. \A j, l \in Consoles, q \in Profiles : Owes(j, q)' /\ Owes(l, q)' => j = l
    BY <1>4, <1>5 DEF SeedInv
  <1>10. \A q \in Profiles \ profiles' : rules'[q] = 0
    BY <1>1 DEF SeedInv
  <1>11. \A q \in profiles' \ cut' :
            rules'[q] = RulesOf(q) \/ \E j \in Consoles : Owes(j, q)'
    <2> SUFFICES ASSUME NEW q \in profiles' \ cut'
                 PROVE  rules'[q] = RulesOf(q) \/ \E j \in Consoles : Owes(j, q)'
      OBVIOUS
    <2>1. CASE q \in profiles
      <3>1. \A j \in Consoles : Owes(j, q) => j # k
        BY <1>1 DEF Owes
      <3>2. q \in profiles \ cut /\ q \in Profiles
        BY <2>1, <1>1 DEF SeedInv, SeedTyped
      <3> QED BY <3>1, <3>2, <1>1, <1>4 DEF SeedInv
    <2>2. CASE q = p /\ p \notin profiles
      <3>1. left = RulesOf(p) /\ rules'[p] = 0
        BY <2>2, <1>1 DEF SeedInv
      <3>2. CASE left = 0
        BY <3>1, <3>2, <2>2
      <3>3. CASE left > 0
        BY <3>3, <2>2, <1>1, <1>4
      <3> QED BY <3>2, <3>3, <1>1
    <2> QED BY <2>1, <2>2, <1>1
  <1>12. \A q \in Profiles : rules'[q] <= RulesOf(q)
    BY <1>1 DEF SeedInv
  <1>13. \A q : RulesOf(q)' = RulesOf(q)
    BY DEF RulesOf
  <1> HIDE DEF p, left
  <1> QED BY <1>3, <1>6, <1>7, <1>8, <1>9, <1>10, <1>11, <1>12, <1>13 DEF SeedInv

LEMMA StepSeedRule == ASSUME SeedInv, NEW k \in Consoles, SeedRule(k) PROVE SeedInv'
  <1> DEFINE p == seeding[k].next
             left == seeding[k].left - 1
  <1>1. /\ p \in Profiles /\ Owes(k, p) /\ left \in Nat
        /\ rules' = [rules EXCEPT ![p] = @ + 1]
        /\ seeding' = [seeding EXCEPT ![k] =
                         [next |-> p + (IF left = 0 THEN 1 ELSE 0), left |-> left]]
        /\ UNCHANGED <<profiles, cut>>
    BY RulesNat DEF SeedRule, Advance, Seeding, SeedInv, SeedTyped, Owes
  <1>2. /\ \A j \in Consoles \ {k} : seeding'[j] = seeding[j]
        /\ seeding'[k].left = left
        /\ seeding'[k].next = p + (IF left = 0 THEN 1 ELSE 0)
    BY <1>1 DEF SeedInv, SeedTyped
  <1>3. /\ rules[p] \in Nat /\ rules'[p] = rules[p] + 1 /\ rules[p] + left + 1 = RulesOf(p)
        /\ \A q \in Profiles \ {p} : rules'[q] = rules[q]
        /\ p \in profiles \ cut
    BY <1>1, RulesNat DEF SeedInv, SeedTyped
  <1>4. SeedTyped'
    BY <1>1, <1>3, RulesNat DEF SeedInv, SeedTyped
  <1>5. \A j \in Consoles, q \in Profiles :
           Owes(j, q)' <=> (j # k /\ Owes(j, q)) \/ (j = k /\ left > 0 /\ q = p)
    BY <1>1, <1>2, RulesNat DEF Owes
  <1>6. \A j \in Consoles \ {k} : ~Owes(j, p)
    BY <1>1 DEF SeedInv
  <1>7. \A j \in Consoles, q \in Profiles : q < seeding'[j].next => q \in profiles'
    BY <1>1, <1>2, <1>3, RulesNat DEF SeedInv, SeedTyped
  <1>8. \A j \in Consoles, q \in Profiles : Owes(j, q)' =>
           q \in profiles' \ cut' /\ rules'[q] + seeding'[j].left = RulesOf(q)
    <2> SUFFICES ASSUME NEW j \in Consoles, NEW q \in Profiles, Owes(j, q)'
                 PROVE  q \in profiles' \ cut' /\ rules'[q] + seeding'[j].left = RulesOf(q)
      OBVIOUS
    <2>1. CASE j # k /\ Owes(j, q)
      BY <2>1, <1>1, <1>2, <1>3, <1>6 DEF SeedInv
    <2>2. CASE j = k /\ left > 0 /\ q = p
      BY <2>2, <1>1, <1>2, <1>3, RulesNat
    <2> QED BY <2>1, <2>2, <1>5
  <1>9. \A j \in Consoles : seeding'[j].left > 0 => Seeding(j)'
    BY <1>1, <1>2, RulesNat DEF SeedInv, Seeding
  <1>10. \A j, l \in Consoles, q \in Profiles : Owes(j, q)' /\ Owes(l, q)' => j = l
    BY <1>5, <1>6 DEF SeedInv
  <1>11. \A q \in Profiles \ profiles' : rules'[q] = 0
    BY <1>1, <1>3 DEF SeedInv
  <1>12. \A q \in profiles' \ cut' :
            rules'[q] = RulesOf(q) \/ \E j \in Consoles : Owes(j, q)'
    <2> SUFFICES ASSUME NEW q \in profiles' \ cut'
                 PROVE  rules'[q] = RulesOf(q) \/ \E j \in Consoles : Owes(j, q)'
      OBVIOUS
    <2>1. q \in Profiles
      BY <1>1 DEF SeedInv, SeedTyped
    <2>2. CASE q = p
      <3>1. CASE left = 0
        BY <3>1, <2>2, <1>3
      <3>2. CASE left > 0
        BY <3>2, <2>2, <1>1, <1>5
      <3>3. left \in Nat
        BY <1>1
      <3> HIDE DEF left
      <3> QED BY <3>1, <3>2, <3>3
    <2>3. CASE q # p
      <3>1. \A j \in Consoles : Owes(j, q) => j # k
        BY <2>3 DEF Owes
      <3>2. rules[q] = RulesOf(q) \/ \E j \in Consoles : Owes(j, q)
        BY <1>1 DEF SeedInv
      <3>3. CASE rules[q] = RulesOf(q)
        BY <3>3, <2>1, <2>3, <1>3
      <3>4. CASE \E j \in Consoles : Owes(j, q)
        <4> PICK j \in Consoles : Owes(j, q)
          BY <3>4
        <4> HIDE DEF left
        <4>1. j # k /\ Owes(j, q)'
          BY <3>1, <2>1, <1>5
        <4> QED BY <4>1
      <3> QED BY <3>2, <3>3, <3>4
    <2> QED BY <2>2, <2>3
  <1>13. \A q \in Profiles : rules'[q] <= RulesOf(q)
    BY <1>1, <1>3, RulesNat DEF SeedInv
  <1>14. \A q : RulesOf(q)' = RulesOf(q)
    BY DEF RulesOf
  <1> HIDE DEF p, left
  <1> QED BY <1>4, <1>7, <1>8, <1>9, <1>10, <1>11, <1>12, <1>13, <1>14 DEF SeedInv

LEMMA StepSeedEnds == ASSUME SeedInv, NEW k \in Consoles, SeedEnds(k) PROVE SeedInv'
  <1> DEFINE p == seeding[k].next
  <1>1. /\ seeding' = [seeding EXCEPT ![k] = [next |-> 1, left |-> 0]]
        /\ cut' = IF seeding[k].left > 0 THEN cut \union {p} ELSE cut
        /\ UNCHANGED <<profiles, rules>>
    BY DEF SeedEnds, tables
  <1>2. /\ \A j \in Consoles \ {k} : seeding'[j] = seeding[j]
        /\ seeding'[k].left = 0 /\ seeding'[k].next = 1
    BY <1>1 DEF SeedInv, SeedTyped
  <1>3. \A j \in Consoles, q \in Profiles : Owes(j, q)' <=> j # k /\ Owes(j, q)
    BY <1>1, <1>2 DEF Owes
  <1>4. seeding[k].left > 0 => p \in Profiles /\ Owes(k, p)
    BY RulesNat DEF SeedInv, SeedTyped, Seeding, Owes
  <1>5. seeding[k].left > 0 => p \in profiles /\ \A j \in Consoles \ {k} : ~Owes(j, p)
    BY <1>4 DEF SeedInv
  <1>6. SeedTyped'
    <2>1. cut' \subseteq profiles'
      BY <1>1, <1>5 DEF SeedInv, SeedTyped
    <2> QED BY <2>1, <1>1, RulesNat DEF SeedInv, SeedTyped
  <1>7. \A j \in Consoles, q \in Profiles : q < seeding'[j].next => q \in profiles'
    BY <1>1, <1>2, RulesNat DEF SeedInv
  <1>8. \A j \in Consoles, q \in Profiles : Owes(j, q)' =>
           q \in profiles' \ cut' /\ rules'[q] + seeding'[j].left = RulesOf(q)
    BY <1>1, <1>2, <1>3, <1>5 DEF SeedInv
  <1>9. \A j \in Consoles : seeding'[j].left > 0 => Seeding(j)'
    BY <1>2 DEF SeedInv, Seeding
  <1>10. \A j, l \in Consoles, q \in Profiles : Owes(j, q)' /\ Owes(l, q)' => j = l
    BY <1>3 DEF SeedInv
  <1>11. \A q \in profiles' \ cut' :
            rules'[q] = RulesOf(q) \/ \E j \in Consoles : Owes(j, q)'
    <2> SUFFICES ASSUME NEW q \in profiles' \ cut'
                 PROVE  rules'[q] = RulesOf(q) \/ \E j \in Consoles : Owes(j, q)'
      OBVIOUS
    <2>1. q \in profiles \ cut /\ q \in Profiles
      BY <1>1 DEF SeedInv, SeedTyped
    <2>2. Owes(k, q) => q = p /\ seeding[k].left > 0
      BY DEF Owes
    <2>3. ~Owes(k, q)
      BY <2>2, <1>1
    <2> HIDE DEF p
    <2> QED BY <2>1, <2>3, <1>1, <1>3 DEF SeedInv
  <1>12. /\ \A q \in Profiles \ profiles' : rules'[q] = 0
         /\ \A q \in Profiles : rules'[q] <= RulesOf(q)
    BY <1>1 DEF SeedInv
  <1>13. \A q : RulesOf(q)' = RulesOf(q)
    BY DEF RulesOf
  <1> HIDE DEF p
  <1> QED BY <1>6, <1>7, <1>8, <1>9, <1>10, <1>11, <1>12, <1>13 DEF SeedInv

LEMMA SeedNext == ASSUME SeedInv, [Next]_vars PROVE SeedInv'
  <1>1. ASSUME NEW k \in Consoles, SeedProfile(k) \/ SeedRule(k) \/ SeedEnds(k) PROVE SeedInv'
    BY <1>1, StepSeedProfile, StepSeedRule, StepSeedEnds
  <1>2. CASE UNCHANGED <<profiles, rules, seeding, cut>>
    BY <1>2 DEF SeedInv, SeedTyped, Owes, RulesOf, Seeding
  <1>3. ASSUME NEW c \in Callers,
               \/ \E s \in Services, i \in Ids : Resolve(c, s, i)
               \/ Lookup(c) \/ Attach(c) \/ Publish(c) \/ Serve(c) \/ LoadFails(c)
        PROVE  UNCHANGED <<profiles, rules, seeding, cut>>
    BY <1>3 DEF Resolve, Lookup, Attach, Publish, Serve, LoadFails, Untouched, tables
  <1>4. ASSUME \/ \E s \in Services : Restart(s)
               \/ \E form \in Forms : CreateSandbox(form) \/ \E i \in Ids : UpdateSandbox(i, form)
               \/ \E i \in Ids : DeleteSandbox(i)
        PROVE  UNCHANGED <<profiles, rules, seeding, cut>>
    BY <1>4 DEF Restart, CreateSandbox, UpdateSandbox, DeleteSandbox, Edit, tables
  <1>5. UNCHANGED vars => UNCHANGED <<profiles, rules, seeding, cut>>
    BY DEF vars
  <1> QED BY <1>1, <1>2, <1>3, <1>4, <1>5 DEF Next

(* However many consoles seed at once, a profile gets its rules once, and has all    *)
(* of them unless its own seeding was cut short (store.go:113).                    *)
THEOREM RulesComeWithProfilesSafety == Spec => []RulesComeWithProfiles
  <1>1. SeedInv => RulesComeWithProfiles
    <2> SUFFICES ASSUME SeedInv PROVE RulesComeWithProfiles
      OBVIOUS
    <2>1. \A p \in Profiles : rules[p] <= Seeds[Shipped[p]].rules
      BY DEF SeedInv, RulesOf
    <2>2. ASSUME \A k \in Consoles : ~Seeding(k), NEW p \in Profiles
          PROVE  p \in profiles /\ (p \in cut \/ rules[p] = Seeds[Shipped[p]].rules)
      <3>1. PICK k \in Consoles : TRUE
        BY StandsAssumption
      <3>2. p < seeding[k].next
        BY <2>2, RulesNat DEF Seeding, SeedInv, SeedTyped
      <3>3. p \in profiles
        BY <3>2 DEF SeedInv
      <3>4. \A j \in Consoles : ~Owes(j, p)
        BY <2>2 DEF SeedInv, Owes
      <3> QED BY <3>3, <3>4 DEF SeedInv, RulesOf
    <2> QED BY <2>1, <2>2 DEF RulesComeWithProfiles
  <1> QED BY <1>1, SeedInit, SeedNext, PTL DEF Spec
=============================================================================

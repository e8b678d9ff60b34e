------------------------------- MODULE Backoffice -------------------------------
(***************************************************************************)
(* The backoffice's tickets: the section that makes them and the section   *)
(* that manages them (each mounts AdminBilhetes anew), and the service     *)
(* behind both.  Admin sessions are Session's, crests are left out.        *)
(*                                                                         *)
(* A selection of the sportsbook is a fixture and the oddId of an outcome. *)
(* What a ticket says and what its coupon bets are sets of selections; a   *)
(* ticket whose words were typed by hand says what no model knows.         *)
(*                                                                         *)
(* AutoBilhetesService writes tickets of its own, at its hour or when an   *)
(* admin asks, under ids made of what they are about.                      *)
(***************************************************************************)
EXTENDS Client

CONSTANTS
  Uuids,        \* bound: the ids of rows made by hand
  MultipleLegs, \* the legs of the multiple of the day (three in the code)
  MarketOf      \* the market of each outcome

\* Fixtures whose markets are all closed are left out: the form has no id for their pick,
\* and a ticket made from it no coupon.
ASSUME BackofficeAssumption == Odds # {} /\ Uuids # {}

Selections == Games \X Odds
Coupons == Options(SUBSET Selections)

\* A coupon shared from the sportsbook and pasted: nobody looks at what it bets.
OfficialCoupon == {}

\* RULES: what is generated for one fixture each; and today's multiple.
AutoCategories == {"safes", "pro", "ultra", "alavancagem", "secundario"} \cap Categories
Today == <<"multiplas", "today">>
Ids == Uuids \cup (AutoCategories \X Games) \cup {Today}

\* EMPTY, with the legs typed for a multiple counted as none or enough.
EMPTY ==
  [event |-> {}, oddId |-> {}, says |-> {}, byHand |-> FALSE, legs |-> FALSE, pasted |-> {}]

AdminBilhetes(section) ==
  [at |-> "admin", section |-> section, items |-> {}, events |-> {}, busy |-> FALSE,
   form |-> EMPTY, basket |-> {}, approved |-> {}, edit |-> {}]

Section(section) == Reachable("admin") /\ screen.section = section
Form(next) == screen' = [screen EXCEPT !.form = next]

\* What sets busy until it is answered.
BusyKinds ==
  {"sync", "syncEvents", "generate", "fromEvents", "create", "betslip", "shared", "preview",
   "edit"}

Work(kind, about) ==
  /\ screen' = [screen EXCEPT !.busy = TRUE] /\ Ask(kind, about)
  /\ UNCHANGED <<account, browser>>

\* The buttons, and the form's submission, are disabled while it works.
Submit(kind, about) == ~screen.busy /\ Work(kind, about)

-----------------------------------------------------------------------------
(* AdminBilhetesService.                                                   *)

\* A uuid is never used again; here, not while anyone still speaks of it.
Spoken ==
  {t.id : t \in tickets}
    \cup {call[c].about.id : c \in {d \in Calls : call[d].kind \in {"row", "edit"}}}
    \cup (IF screen.at = "admin" THEN {t.id : t \in screen.items \cup screen.edit} ELSE {})
    \cup UNION {{t.id : t \in call[c].data.items} :
                  c \in {d \in Calls : call[d].kind = "lists" /\ call[d].at = "ok"}}
Fresh == Uuids \ Spoken

\* A row as it is created: published at once.
Bilhete(id, categoria, event, says, byHand, shareUrl) ==
  [id |-> id, categoria |-> categoria, event |-> event, says |-> says, byHand |-> byHand,
   coupon |-> shareUrl, published |-> TRUE, resultado |-> "pending"]

\* A coupon for the picks, if every one of them has its ids.
buildBilheteShareUrl(picks) ==
  IF \A p \in picks : p.event # {} /\ p.oddId # {}
    THEN {{<<Only(p.event), Only(p.oddId)>> : p \in picks}} ELSE {}

\* create: a coupon that is pasted wins over the one that is built.
create(c) ==
  /\ Sent(c, "create") /\ Fresh # {}
  /\ LET dto == call[c].about IN
     tickets' = tickets \cup
       {Bilhete(Only(Fresh), dto.categoria, dto.event, dto.says, dto.byHand,
                IF dto.pasted # {} THEN dto.pasted ELSE buildBilheteShareUrl(dto.picks))}
  /\ Reply(c, "ok", {})
  /\ UNCHANGED <<screen, plan, bought, balance, member, changes, browser>>

\* createFromEvents: the approved fixtures no ticket has yet, one after the other, until
\* one fails.
createFromEvents(c) ==
  /\ Sent(c, "fromEvents")
  /\ LET dto == call[c].about
         used == UNION {t.event : t \in tickets}
         due == {s \in dto.picks : s[1] \notin used}
     IN \E made \in SUBSET due : \E id \in [made -> Fresh] :
          /\ \A s, u \in made : id[s] = id[u] => s = u
          /\ tickets' = tickets \cup
               {Bilhete(id[s], dto.categoria, {s[1]}, {s}, FALSE, {}) : s \in made}
          /\ Reply(c, IF made = due THEN "ok" ELSE "failed", {})
  /\ UNCHANGED <<screen, plan, bought, balance, member, changes, browser>>

\* importBetslip: a row for each selection, one after the other, until one fails; of the
\* selection the fixture and the price are taken, not what it bets on.
importBetslip(c) ==
  /\ Sent(c, "betslip")
  /\ \E made \in SUBSET Fresh : \E event \in [made -> Options(Games)] :
       /\ tickets' = tickets \cup
            {Bilhete(id, call[c].about.categoria, event[id], {}, FALSE, {}) : id \in made}
       /\ Reply(c, "failed", {}) \/ (made # {} /\ Reply(c, "ok", {}))
  /\ UNCHANGED <<screen, plan, bought, balance, member, changes, browser>>

\* setResult, setPublished, remove; update.  404 if the row is gone.
Row(c) == {t \in tickets : t.id = call[c].about.id}

setRow(c) ==
  /\ Sent(c, "row")
  /\ LET dto == call[c].about
         next == CASE dto.set = "resultado" -> {[t EXCEPT !.resultado = dto.to] : t \in Row(c)}
                   [] dto.set = "published" -> {[t EXCEPT !.published = dto.to] : t \in Row(c)}
                   [] dto.set = "removed" -> {}
     IN tickets' = (tickets \ Row(c)) \cup next
  /\ Reply(c, IF Row(c) # {} THEN "ok" ELSE "failed", {})
  /\ UNCHANGED <<screen, plan, bought, balance, member, changes, browser>>

\* The legs of a multiple are not in the editor: they stay as the row has them by now, and
\* that the coupon is theirs is from here on the admin's word.
Multiple(t) == ~\E s \in Selections : t.says \subseteq {s}

update(c) ==
  /\ Sent(c, "edit")
  /\ LET dto == call[c].about IN
     tickets' = (tickets \ Row(c)) \cup
       {[t EXCEPT !.categoria = dto.categoria, !.coupon = dto.coupon,
                  !.says = IF Multiple(t) THEN @ ELSE dto.says,
                  !.byHand = Multiple(t) \/ dto.byHand] : t \in Row(c)}
  /\ Reply(c, IF Row(c) # {} THEN "ok" ELSE "failed", {})
  /\ UNCHANGED <<screen, plan, bought, balance, member, changes, browser>>

\* list, and the fixtures of the feed; each of the reads may fail by itself.  A preview
\* is of one fixture; a synchronisation changes nothing a ticket has.
ServeLists(c) ==
  /\ Sent(c, "lists")
  /\ \E items \in {{}, tickets}, events \in {{}, Games} :
       Reply(c, "ok", [items |-> items, events |-> events])
  /\ UNCHANGED <<screen, account, browser>>

ServePreview(c) ==
  /\ Sent(c, "shared") \/ Sent(c, "preview")
  /\ \E g \in Games : Reply(c, "ok", g)
  /\ UNCHANGED <<screen, account, browser>>

ServeSync(c) ==
  /\ Sent(c, "sync") \/ Sent(c, "syncEvents")
  /\ Reply(c, "ok", {})
  /\ UNCHANGED <<screen, account, browser>>

-----------------------------------------------------------------------------
(* AutoBilhetesService.generateDaily: one row after the other, for the job *)
(* or for an admin, and both at once for all the code does; it may fail    *)
(* after any of them.                                                      *)

\* A row that is there is written over, published again, and keeps its result.
Upsert(row) ==
  LET old == {t \in tickets : t.id = row.id} IN
  /\ tickets' = (tickets \ old) \cup
       {[row EXCEPT !.resultado = r] :
          r \in IF old = {} THEN {"pending"} ELSE {t.resultado : t \in old}}
  /\ UNCHANGED <<screen, call, plan, bought, balance, member, changes, browser>>

upsertSingle(k, s) ==
  Upsert(Bilhete(<<k, s[1]>>, k, {s[1]}, {s}, FALSE, {{s}}))

\* The multiple shows the fixture of its first leg.
upsertMultiple(face, legs) ==
  /\ "multiplas" \in Categories /\ Cardinality(legs) = MultipleLegs
  /\ \A s, u \in legs : s[1] = u[1] => s = u
  /\ Upsert(Bilhete(Today, "multiplas", {face[1]}, legs, FALSE, {legs}))

generateDaily ==
  \/ \E k \in AutoCategories, s \in Selections : upsertSingle(k, s)
  \/ \E legs \in SUBSET Selections : \E face \in legs : upsertMultiple(face, legs)

ServeGenerate(c) ==
  /\ Sent(c, "generate") /\ Reply(c, "ok", {})
  /\ UNCHANGED <<screen, account, browser>>

-----------------------------------------------------------------------------
(* AdminBilhetes, both sections.                                           *)

setSection(section) ==
  /\ screen.at = "admin" /\ screen.section # section
  /\ Go(AdminBilhetes(section), {"lists"})
  /\ UNCHANGED <<account, browser>>

\* What a section does not show is left out.
Lists(items, events) ==
  screen' = IF screen.section = "manage" THEN [screen EXCEPT !.items = items]
            ELSE [screen EXCEPT !.events = events]

GotLists(c) ==
  /\ screen.at = "admin" /\ Done(c)
  /\ \/ Answered(c, "lists") /\ Lists(call[c].data.items, call[c].data.events)
     \/ Failed(c, "lists") /\ Lists({}, {})
  /\ UNCHANGED <<account, browser>>

\* What a handler's answer leaves of the screen, before the lists are read again.
After(c) ==
  LET idle == [screen EXCEPT !.busy = FALSE] IN
  CASE call[c].kind \in {"sync", "generate"} -> idle
    [] call[c].kind = "syncEvents" -> [idle EXCEPT !.approved = {}]
    [] call[c].kind = "fromEvents" ->
         [idle EXCEPT !.approved = {}, !.form = [EMPTY EXCEPT !.legs = screen.form.legs]]
    [] call[c].kind = "create" -> IF call[c].about.of = "basket" THEN [idle EXCEPT !.basket = {}]
                                  ELSE [idle EXCEPT !.form = EMPTY]
    [] call[c].kind = "betslip" -> idle
    [] call[c].kind = "edit" -> [idle EXCEPT !.edit = {}]

Handled(c) ==
  /\ screen.at = "admin" /\ call[c].kind \in BusyKinds \ {"shared", "preview"}
  /\ \/ call[c].at = "ok" /\ screen' = After(c) /\ Instead(c, "lists", {})
     \/ call[c].at = "failed" /\ screen' = [screen EXCEPT !.busy = FALSE] /\ Done(c)
  /\ UNCHANGED <<account, browser>>

-----------------------------------------------------------------------------
(* The section that makes tickets.                                         *)

\* The five synchronisations (Settlement) and the automatic generation.
onSync(kind) == Section("create") /\ Submit(kind, {})

toggleApprovedEvent(g) ==
  /\ Section("create") /\ g \in screen.events
  /\ screen' = [screen EXCEPT !.approved = IF g \in @ THEN @ \ {g} ELSE @ \cup {g}]
  /\ UNCHANGED <<call, account, browser>>

\* Each approved fixture with the pick of its row.
onCreateFromEvents(categoria) ==
  /\ Section("create") /\ screen.approved # {}
  /\ \E pick \in [screen.approved -> Odds] :
       Submit("fromEvents", [categoria |-> categoria,
                             picks |-> {<<g, pick[g]>> : g \in DOMAIN pick}])

\* The first outcome of the first market, as sorted for the screen.
FirstSelection == CHOOSE o \in Odds : TRUE

\* The ticket's words and ids come from the fixture; the category, the typed legs and a
\* coupon that was pasted stay.
Picked(g) ==
  [screen.form EXCEPT !.event = {g}, !.oddId = {FirstSelection},
                      !.says = {<<g, FirstSelection>>}, !.byHand = FALSE]

onPickEvent(g) ==
  /\ Section("create") /\ g \in screen.events /\ Form(Picked(g))
  /\ UNCHANGED <<call, account, browser>>

\* Mutant: the id of the outcome stays that of the fixture's first.
SelectionLabelOnly(o) ==
  /\ Section("create") /\ screen.form.event # {}
  /\ Form([screen.form EXCEPT !.says = {<<s[1], o>> : s \in @}])
  /\ UNCHANGED <<call, account, browser>>

\* An outcome of the fixture that is shown.
onPickSelection(o) ==
  /\ Section("create") /\ screen.form.event # {}
  /\ Form([screen.form EXCEPT !.says = {<<s[1], o>> : s \in @}, !.oddId = {o}])
  /\ UNCHANGED <<call, account, browser>>

\* The fields are typed over: the ids of what was picked stay.
typeOver ==
  /\ Section("create") /\ \E legs \in BOOLEAN :
       Form([screen.form EXCEPT !.byHand = TRUE, !.legs = legs])
  /\ UNCHANGED <<call, account, browser>>

\* The coupon's field, which nothing but a ticket that is made empties.
pasteShareUrl ==
  /\ Section("create") /\ \E pasted \in {{}, {OfficialCoupon}} :
       Form([screen.form EXCEPT !.pasted = pasted])
  /\ UNCHANGED <<call, account, browser>>

\* toggleBasketLeg: out again, or in the place of the same market's.
onToggleBasket(s) ==
  /\ Section("create") /\ s[1] \in screen.form.event
  /\ screen' = [screen EXCEPT !.basket =
       IF s \in @ THEN @ \ {s}
       ELSE {l \in @ : l[1] # s[1] \/ MarketOf[l[2]] # MarketOf[s[2]]} \cup {s}]
  /\ UNCHANGED <<call, account, browser>>

\* One leg makes a ticket on its fixture, several a multiple.
onGenerateFromBasket(categoria) ==
  /\ Section("create") /\ screen.basket # {}
  /\ LET legs == screen.basket IN
     Submit("create", [of |-> "basket", categoria |-> categoria, says |-> legs,
                       byHand |-> FALSE, pasted |-> {},
                       event |-> IF Cardinality(legs) = 1 THEN {l[1] : l \in legs} ELSE {},
                       picks |-> {[event |-> {l[1]}, oddId |-> {l[2]}] : l \in legs}])

clearBasket ==
  /\ Section("create") /\ ~screen.busy /\ screen' = [screen EXCEPT !.basket = {}]
  /\ UNCHANGED <<call, account, browser>>

\* The form: its own pick, or the legs typed for a multiple, which have no ids.
onCreate(categoria) ==
  /\ Section("create")
  /\ LET form == screen.form
         multiple == categoria = "multiplas"
     IN
     /\ form.event # {} \/ form.byHand
     /\ multiple => form.legs
     /\ Submit("create", [of |-> "form", categoria |-> categoria, says |-> form.says,
                          byHand |-> form.byHand \/ multiple,
                          pasted |-> form.pasted, event |-> form.event,
                          picks |-> {IF multiple THEN [event |-> {}, oddId |-> {}]
                                     ELSE [event |-> form.event, oddId |-> form.oddId]}])

onImportBetslip(categoria) == Section("create") /\ Submit("betslip", [categoria |-> categoria])

\* A link with a share code is asked for as one; without an answer from the network it is
\* asked for as any other link.  The button is disabled while another request is on the
\* way, Enter in the link's field is not.
onPreviewLink(kind) == Section("create") /\ Work(kind, {})

GotPreview(c) ==
  /\ screen.at = "admin" /\ call[c].kind \in {"shared", "preview"}
  /\ \/ /\ call[c].at = "ok" /\ Done(c)
        /\ screen' = [screen EXCEPT !.form = Picked(call[c].data), !.busy = FALSE]
     \/ Failed(c, "shared") /\ Instead(c, "preview", {}) /\ UNCHANGED screen
     \/ call[c].at = "failed" /\ Done(c) /\ screen' = [screen EXCEPT !.busy = FALSE]
  /\ UNCHANGED <<account, browser>>

-----------------------------------------------------------------------------
(* The section that manages them.                                          *)

\* onResult, onTogglePublish, onDelete: no busy, and of a failure nothing is left to see.
onRow(t, set, to) ==
  /\ Section("manage") /\ t \in screen.items
  /\ Ask("row", [id |-> t.id, set |-> set, to |-> to])
  /\ UNCHANGED <<screen, account, browser>>

GotRow(c) ==
  /\ screen.at = "admin" /\ UNCHANGED screen
  /\ \/ Answered(c, "row") /\ Instead(c, "lists", {})
     \/ Failed(c, "row") /\ Done(c)
  /\ UNCHANGED <<account, browser>>

\* The editor opens with the row as the list has it, or closes.
onStartEdit(t) ==
  /\ Section("manage") /\ t \in screen.items
  /\ screen' = [screen EXCEPT !.edit = IF {e.id : e \in @} = {t.id} THEN {} ELSE {t}]
  /\ UNCHANGED <<call, account, browser>>

\* The whole editor is sent, also what was not changed; the words may have been typed over.
onSaveEdit(categoria) ==
  /\ Section("manage")
  /\ \E e \in screen.edit, typed \in BOOLEAN : \E coupons \in {e.coupon, {}, {OfficialCoupon}} :
       Submit("edit", [id |-> e.id, categoria |-> categoria, coupon |-> coupons,
                       says |-> e.says, byHand |-> e.byHand \/ typed])

-----------------------------------------------------------------------------

BackofficeNext ==
  \/ \E c \in Calls :
       \/ create(c) \/ createFromEvents(c) \/ importBetslip(c) \/ setRow(c) \/ update(c)
       \/ ServeLists(c) \/ ServePreview(c) \/ ServeSync(c) \/ ServeGenerate(c)
       \/ GotLists(c) \/ Handled(c) \/ GotPreview(c) \/ GotRow(c)
  \/ \E section \in {"create", "manage"} : setSection(section)
  \/ generateDaily \/ onSync("sync") \/ onSync("syncEvents") \/ onSync("generate")
  \/ \E g \in Games : toggleApprovedEvent(g) \/ onPickEvent(g)
  \/ \E o \in Odds : onPickSelection(o)
  \/ \E s \in Selections : onToggleBasket(s)
  \/ typeOver \/ pasteShareUrl \/ clearBasket
  \/ \E kind \in {"shared", "preview"} : onPreviewLink(kind)
  \/ \E k \in Categories :
       \/ onCreateFromEvents(k) \/ onGenerateFromBasket(k) \/ onCreate(k)
       \/ onImportBetslip(k) \/ onSaveEdit(k)
  \/ \E t \in (IF screen.at = "admin" THEN screen.items ELSE {}) :
       \/ onStartEdit(t)
       \/ onRow(t, "resultado", "green") \/ onRow(t, "resultado", "red")
       \/ onRow(t, "published", ~t.published) \/ onRow(t, "removed", TRUE)

\* What a ticket is sold as and what its coupon bets are one thing, for every coupon that
\* the code builds: a ticket whose words nobody typed, made from a fixture, a link, the
\* basket or by the generator, however the picks were changed while previews overtook each
\* other and lists were being answered, and whoever saved an older copy of it, has no
\* coupon or one for exactly the selections it names.  Of a coupon that was pasted nothing
\* is promised: it stays in the form when another fixture is picked, and is sold with it.
CouponIsTheTicket ==
  \A t \in tickets : ~t.byHand => t.coupon \subseteq {t.says, OfficialCoupon}

=============================================================================

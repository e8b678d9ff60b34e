---------------------------------- MODULE MCApp ----------------------------------
(***************************************************************************)
(* The app in tours: each behaviour visits the home and some other screens *)
(* only, over the values those screens tell apart.                         *)
(***************************************************************************)
EXTENDS App, TLC

VARIABLE tour   \* the screens of this behaviour

Tours == {{"bilhetes", "planos", "changes"}, {"bilhetes", "gate"}, {"bilhetes", "tipster"},
          {"perfil", "greens"}, {"admin", "making"}, {"admin", "links"},
          {"admin", "managing", "edits"}, {"admin", "managing", "edits", "generated"},
          {"admin", "managing", "results"}}

Fixtures == Permutations(Games)
AMarket == [o \in Odds |-> "1x2"]

TourInit ==
  /\ AppInit /\ tour \in Tours
  \* Each tour starts where what it visits can differ.
  /\ plan = (IF "gate" \in tour THEN 2 ELSE 0) \/ (plan = 2 /\ "changes" \in tour)
  /\ "tipster" \in tour => balance > 0
  /\ "tipster" \notin tour => balance = 0
  /\ IF tour \cap {"changes", "gate", "managing"} = {} \/ "generated" \in tour THEN tickets = {}
     ELSE \E t \in tickets : t.categoria = "ultra" /\ \E s \in t.says : s[2] = FirstSelection
  /\ ~locked

Making ==
  {"sync", "syncEvents", "generate", "fromEvents", "create", "betslip", "shared", "preview"}
Managing == {"row", "edit"}
Waiting == {c \in Calls : call'[c].at # "idle"}

TourNext ==
  /\ AppNext /\ UNCHANGED tour
  /\ screen'.at \in tour \cup {"home"}
  \* What happens elsewhere to the account is met by the screens that show it.
  /\ changes' = changes \/ "perfil" \in tour \/ ("changes" \in tour /\ balance' = balance)
  /\ locked' = locked \/ tour \cap {"gate", "tipster"} # {}
  \* Tickets are made, or managed, or one is generated: one request at a time, but links are
  \* previewed beside a ticket of the form that is being made.
  /\ tour \cap {"making", "generated"} # {} => \A c \in Waiting : Waiting = {c}
  /\ "links" \in tour => \A c \in Waiting : call'[c].kind \in {"me", "lists", "create", "shared", "preview"}
  /\ tour \cap {"making", "links"} # {} => \A c \in Waiting : call'[c].kind \notin Managing
  /\ "links" \in tour /\ tickets # {} => \A c \in Waiting \cap Unused : call'[c].kind \in {"me", "lists"}
  /\ "generated" \in tour => \A c \in Waiting :
       /\ call'[c].kind \in {"me", "lists", "edit"}
       /\ call'[c].kind = "edit" => ~call'[c].about.byHand /\ OfficialCoupon \notin call'[c].about.coupon
  /\ IF "generated" \in tour
     THEN Cardinality(tickets') <= 1 /\ \A t \in tickets' : t.categoria # "pro"
     ELSE \A t \in tickets' : t.id \in Uuids
  /\ "managing" \in tour => \A c \in Waiting : call'[c].kind \notin Making
  /\ "edits" \in tour => \A c \in Waiting : call'[c].kind = "row" => call'[c].about.set = "removed"
  /\ "results" \in tour => \A c \in Waiting : call'[c].kind # "edit"
  \* Of the lists, the one that the section shows may fail.
  /\ \A c \in Waiting : call'[c].kind = "lists" /\ call'[c].at = "ok" =>
       /\ "making" \notin tour => call'[c].data.events = Games
       /\ tour \cap {"making", "links", "generated"} # {} => call'[c].data.items = tickets
  \* Of the categories, the two that a ticket's form tells apart.
  /\ \A c \in Waiting : call'[c].kind \in {"fromEvents", "create", "betslip", "edit"}
                          => call'[c].about.categoria
                               \in (IF tour \cap {"edits", "links"} # {} THEN {"ultra"} ELSE {"ultra", "multiplas"})
  \* Games come into play and leave together.
  /\ \A c \in Waiting : call'[c].kind = "games" /\ call'[c].at = "ok"
                          => call'[c].data.live \in {{}, Games}
  /\ screen'.at = "admin" =>
       /\ tour \cap {"making", "links"} # {} => screen'.edit = {}
       /\ "managing" \in tour => screen'.section = "manage"
       /\ "results" \in tour => screen'.edit = {}
       \* Fixtures are approved, or the basket is filled, or the form.
       /\ screen'.approved = {} \/ (screen'.basket = {} /\ screen'.form = EMPTY)
       /\ screen'.basket = {}
            \/ (~screen'.form.byHand /\ ~screen'.form.legs /\ screen'.form.pasted = {})
       \* Coupons are pasted where links are previewed.
       /\ "making" \in tour => screen'.form.pasted = {}
       \* While links are previewed nothing but the form is filled.
       /\ "links" \in tour =>
            /\ screen'.approved = {} /\ screen'.basket = {} /\ ~screen'.form.legs
            /\ screen'.form.oddId \subseteq {FirstSelection}
            /\ screen'.section = "manage" => screen'.items = {}

TourSpec == TourInit /\ [][TourNext]_<<appVars, tour>>

=============================================================================

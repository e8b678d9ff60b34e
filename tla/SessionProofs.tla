------------------------------ MODULE SessionProofs ------------------------------
(***************************************************************************)
(* Why a login keeps one refresh token and the browser is not left with a  *)
(* spent one, for any users and any number of calls in flight together.    *)
(*                                                                         *)
(* None of the properties is inductive.  A login's token is either a row   *)
(* or in the hands of the one call that has deleted the row and not yet    *)
(* created the next (OneInv).  A token in the storage that has no row any  *)
(* more is being exchanged by a call whose answer will replace it, and     *)
(* that answer's token is known to nobody else until then (TokenInv).      *)
(* What is stored next comes from the refreshes and admin sessions under   *)
(* way, so those, too, are of nobody who has left (OutInv).                *)
(***************************************************************************)
EXTENDS Session, FiniteSetTheorems, TLAPS

\* The types, for k tokens issued so far: they only widen.
Record(k) ==
  [kind : {"none", "login", "member", "admin", "open", "orphan"},
   at : {"idle", "sent", "found", "rotated", "answered"},
   asks : {"none", "login", "page", "backoffice", "refresh", "session"},
   stage : {"first", "second", "last"},
   access : {Null} \cup 1..k, admin : {Null} \cup 1..k,
   refresh : {Null} \cup 1..k, password : Passwords,
   answer : {"none", "ok", "401", "403", "500", "lost"},
   gets : {Null} \cup 1..k, fetches : Nat, mounted : BOOLEAN]

Storage(k) ==
  [access : {Null} \cup 1..k, refresh : {Null} \cup 1..k, admin : {Null} \cup 1..k]

ServerInv ==
  /\ owner \in Seq(Users)
  /\ chain \in Seq(Nat) /\ Len(chain) = Len(owner)
  /\ \A n \in Numbers : chain[n] <= Len(owner)
  /\ access \subseteq Numbers /\ refresh \subseteq Numbers
  /\ expired \subseteq Numbers /\ lost \subseteq Numbers
  /\ admin \subseteq Numbers /\ admin \cap (access \cup refresh) = {}

PageInv ==
  /\ stored \in Storage(Len(owner))
  /\ authed \in BOOLEAN /\ password \in Passwords
  /\ page \in {"closed", "checking", "need-password", "ready", "denied"}
  /\ failures \in 0..MaxFailures

\* A call that asks for a refresh holds a token; only such a call exchanges one.
WellFormed(r) ==
  /\ r.kind = "none" => r.asks = "none"
  /\ r.asks = "refresh" => r.refresh # Null
  /\ r.at \in {"found", "rotated"} => r.asks = "refresh"
  /\ r.at # "answered" => r.answer = "none"

CallInv ==
  call \in [Calls -> Record(Len(owner))] /\ \A c \in Calls : WellFormed(call[c])

Rotating == {c \in Calls : call[c].at = "rotated"}

OneInv ==
  /\ \A n, m \in refresh : chain[n] = chain[m] => n = m
  /\ \A c, d \in Rotating : chain[call[c].refresh] = chain[call[d].refresh] => c = d
  /\ \A n \in refresh : \A c \in Rotating : chain[n] # chain[call[c].refresh]

\* Call c has spent its token, and its answer, if it comes, brings the next one.
Spends(c) == call[c].asks = "refresh" /\ (call[c].at = "rotated" \/ call[c].answer = "ok")
Gives(c) ==
  call[c].answer = "ok" /\ call[c].asks \in {"login", "refresh"} /\ call[c].kind # "orphan"

TokenInv ==
  /\ stored.refresh \in {Null} \cup refresh \cup lost
       \/ \E c \in Calls : Spends(c) /\ call[c].refresh = stored.refresh
  /\ \A c \in Calls : Gives(c) =>
       /\ call[c].gets \in refresh /\ call[c].gets # stored.refresh
       /\ \A d \in Calls : call[d].asks = "refresh" => call[d].refresh # call[c].gets
       /\ \A d \in Calls \ {c} : Gives(d) => call[d].gets # call[c].gets
  /\ \A c \in Calls :
       call[c].kind = "orphan" /\ call[c].asks = "refresh" => call[c].refresh \in lost

\* How many requests a call has made, by where it stands.
Spent(kind, stage, asks) ==
  CASE kind = "none" -> 0
    [] kind = "orphan" -> 5
    [] kind = "admin" -> (CASE asks = "refresh" -> 2
                            [] asks = "session" -> 4
                            [] OTHER -> IF stage = "first" THEN 1
                                        ELSE IF stage = "second" THEN 3 ELSE 5)
    [] OTHER -> IF asks = "refresh" THEN 2 ELSE IF stage = "first" THEN 1 ELSE 3

Short(r) ==
  /\ r.fetches <= Spent(r.kind, r.stage, r.asks)
  /\ r.asks = "refresh" => r.stage = "first" \/ r.kind = "orphan"
  /\ r.kind = "login" => r.asks = "login" /\ r.stage = "first"
  /\ r.kind = "admin" /\ r.asks = "session" => r.stage = "last"

ShortInv == \A c \in Calls : Short(call[c])

IInv ==
  ServerInv /\ PageInv /\ CallInv /\ OneInv /\ TokenInv /\ ShortInv
    /\ CheckingIsPending

-----------------------------------------------------------------------------
(* What a step does to the calls.                                          *)

LEMMA TypesWiden ==
  ASSUME NEW k \in Nat, NEW m \in Nat, k <= m
  PROVE  Record(k) \subseteq Record(m) /\ Storage(k) \subseteq Storage(m)
<1>1. {Null} \cup 1..k \subseteq {Null} \cup 1..m
  OBVIOUS
<1> QED
  BY <1>1 DEF Record, Storage

LEMMA Counts == ServerInv => /\ Len(owner) \in Nat /\ Numbers = 1..Len(owner)
                             /\ Fresh = Len(owner) + 1 /\ Fresh \notin Numbers
BY DEF ServerInv, Numbers, Fresh

\* Everything about call c but what it has been answered.
Keeps(c) ==
  /\ call'[c].kind = call[c].kind /\ call'[c].asks = call[c].asks
  /\ call'[c].stage = call[c].stage /\ call'[c].refresh = call[c].refresh
  /\ call'[c].access = call[c].access /\ call'[c].admin = call[c].admin
  /\ call'[c].fetches = call[c].fetches /\ call'[c].mounted = call[c].mounted

LEMMA AnswerEffect ==
  ASSUME NEW k \in Nat, call \in [Calls -> Record(k)], NEW c \in Calls,
         NEW what \in {"ok", "401", "403", "500", "lost"}, NEW n \in {Null} \cup 1..k,
         Answer(c, what, n)
  PROVE  /\ call' \in [Calls -> Record(k)]
         /\ \A d \in Calls : Keeps(d)
         /\ call'[c].at = "answered" /\ call'[c].answer = what /\ call'[c].gets = n
         /\ \A d \in Calls \ {c} : call'[d] = call[d]
<1>1. call[c] \in Record(k)
  OBVIOUS
<1>2. /\ call'[c] = [call[c] EXCEPT !.at = "answered", !.answer = what, !.gets = n]
      /\ \A d \in Calls \ {c} : call'[d] = call[d]
  BY DEF Answer
<1>3. /\ call'[c] \in Record(k) /\ Keeps(c)
      /\ call'[c].at = "answered" /\ call'[c].answer = what /\ call'[c].gets = n
  <2> DEFINE r == call[c]  q == call'[c]
  <2>1. r \in Record(k) /\ q = [r EXCEPT !.at = "answered", !.answer = what, !.gets = n]
    BY <1>1, <1>2
  <2> HIDE DEF r, q
  <2>2. q \in Record(k)
    BY <2>1, ZenonT(60) DEF Record
  <2>3. q.kind = r.kind /\ q.asks = r.asks /\ q.stage = r.stage /\ q.fetches = r.fetches
    BY <2>1 DEF Record
  <2>4. q.refresh = r.refresh /\ q.access = r.access /\ q.admin = r.admin
    BY <2>1 DEF Record
  <2>5. q.mounted = r.mounted
    BY <2>1 DEF Record
  <2>6. q.at = "answered" /\ q.answer = what /\ q.gets = n
    BY <2>1 DEF Record
  <2> QED
    BY <2>2, <2>3, <2>4, <2>5, <2>6, Zenon DEF Keeps, r, q
<1>4. call' \in [Calls -> Record(k)]
  BY <1>3 DEF Answer
<1>5. \A d \in Calls \ {c} : Keeps(d)
  BY <1>2 DEF Keeps
<1> QED
  BY <1>2, <1>3, <1>4, <1>5

\* q is call r gone on to send a request.
IsSent(q, r, what, s) ==
  /\ q.kind = r.kind /\ q.stage = r.stage /\ q.mounted = r.mounted
  /\ q.fetches = r.fetches + 1
  /\ q.at = "sent" /\ q.asks = what /\ q.answer = "none" /\ q.gets = Null
  /\ q.access = (IF what = "refresh" THEN Null ELSE s.access)
  /\ q.refresh = (IF what = "refresh" THEN s.refresh ELSE Null)

LEMMA SendEffect ==
  ASSUME NEW k \in Nat, NEW r \in Record(k), NEW s \in Storage(k),
         NEW what \in {"login", "page", "backoffice", "refresh", "session"},
         NEW pw \in Passwords
  PROVE  /\ Send(r, what, s, pw) \in Record(k)
         /\ IsSent(Send(r, what, s, pw), r, what, s)
<1> DEFINE a == IF what = "refresh" THEN Null ELSE s.access
           b == IF what = "backoffice" THEN s.admin ELSE Null
           e == IF what = "refresh" THEN s.refresh ELSE Null
           p == IF what = "session" THEN pw ELSE "none"
<1>1. s.access \in {Null} \cup 1..k /\ s.refresh \in {Null} \cup 1..k
      /\ s.admin \in {Null} \cup 1..k
  BY DEF Storage
<1>2. /\ a \in {Null} \cup 1..k /\ b \in {Null} \cup 1..k
      /\ e \in {Null} \cup 1..k /\ p \in Passwords
  BY <1>1 DEF Passwords
<1>3. /\ a = (IF what = "refresh" THEN Null ELSE s.access)
      /\ e = (IF what = "refresh" THEN s.refresh ELSE Null)
  OBVIOUS
<1> DEFINE q == Send(r, what, s, pw)
<1>4. q = [r EXCEPT !.at = "sent", !.asks = what, !.answer = "none", !.gets = Null,
            !.access = a, !.admin = b, !.refresh = e, !.password = p, !.fetches = @ + 1]
  BY DEF Send
<1> HIDE DEF a, b, e, p, q
<1>5. q \in Record(k)
  <2> DEFINE f  == r.fetches + 1
             r0 == [r EXCEPT !.at = "sent", !.answer = "none", !.gets = Null]
             r1 == [r0 EXCEPT !.asks = what]
             r2 == [r1 EXCEPT !.access = a, !.admin = b, !.refresh = e]
  <2>1. f \in Nat
    BY DEF Record
  <2>2. r1 \in Record(k)
    <3>1. r0 = [r EXCEPT !.at = "sent", !.answer = "none", !.gets = Null]
      OBVIOUS
    <3> HIDE DEF r0
    <3>2. r \in Record(k) /\ Null \in {Null} \cup 1..k
      OBVIOUS
    <3>3. r0 \in Record(k)
      BY ONLY <3>1, <3>2, ZenonT(60) DEF Record
    <3> QED
      BY <3>3 DEF Record
  <2>3. r2 \in Record(k)
    <3> HIDE DEF r1
    <3> QED
      BY <1>2, <2>2 DEF Record
  <2>4. [r2 EXCEPT !.password = p, !.fetches = f] \in Record(k)
    <3> HIDE DEF r2, f
    <3> QED
      BY <1>2, <2>1, <2>3 DEF Record
  <2>5. q = [r2 EXCEPT !.password = p, !.fetches = f]
    BY <1>4 DEF Record
  <2> QED
    BY <2>4, <2>5, Zenon
<1>6. q.kind = r.kind /\ q.stage = r.stage /\ q.fetches = r.fetches + 1
  BY <1>4 DEF Record
<1>7. q.mounted = r.mounted
  BY <1>4 DEF Record
<1>8. q.at = "sent" /\ q.asks = what /\ q.answer = "none" /\ q.refresh = e
  BY <1>4 DEF Record
<1>9. q.gets = Null /\ q.access = a
  BY <1>4 DEF Record
<1>10. IsSent(q, r, what, s)
  BY <1>3, <1>6, <1>7, <1>8, <1>9, Zenon DEF IsSent
<1> QED
  BY <1>5, <1>10, Zenon DEF q

LEMMA IdleEffect ==
  ASSUME NEW k \in Nat
  PROVE  /\ Idle \in Record(k) /\ WellFormed(Idle) /\ Short(Idle)
         /\ Idle.kind = "none" /\ Idle.at = "idle" /\ Idle.asks = "none"
         /\ Idle.answer = "none" /\ Idle.fetches = 0 /\ Idle.mounted = FALSE
         /\ Idle.stage = "first"
<1>1. /\ Idle \in Record(k)
      /\ Idle.kind = "none" /\ Idle.at = "idle" /\ Idle.asks = "none"
      /\ Idle.answer = "none" /\ Idle.fetches = 0 /\ Idle.mounted = FALSE
      /\ Idle.stage = "first"
  BY DEF Idle, Record, Passwords
<1>2. WellFormed(Idle) /\ Short(Idle)
  BY <1>1 DEF WellFormed, Short, Spent
<1> QED
  BY <1>1, <1>2

-----------------------------------------------------------------------------
(* One call moves, and tokens are only added.                              *)

LEMMA Update ==
  ASSUME Len(owner) \in Nat, Len(owner') \in Nat, Len(owner) <= Len(owner'),
         CallInv, ShortInv,
         NEW c \in Calls, NEW q \in Record(Len(owner')), WellFormed(q), Short(q),
         call' = [call EXCEPT ![c] = q]
  PROVE  /\ CallInv' /\ ShortInv'
         /\ call'[c] = q /\ \A d \in Calls \ {c} : call'[d] = call[d]
<1>1. call \in [Calls -> Record(Len(owner))]
  BY DEF CallInv
<1>2. call'[c] = q /\ \A d \in Calls \ {c} : call'[d] = call[d]
  BY <1>1
<1>3. Record(Len(owner)) \subseteq Record(Len(owner'))
  BY TypesWiden
<1>4. call' \in [Calls -> Record(Len(owner'))]
  BY <1>1, <1>2, <1>3
<1>5. \A d \in Calls : WellFormed(call'[d]) /\ Short(call'[d])
  BY <1>2 DEF CallInv, ShortInv
<1> QED
  BY <1>2, <1>4, <1>5 DEF CallInv, ShortInv

LEMMA Answered ==
  ASSUME Len(owner) \in Nat, Len(owner') \in Nat, Len(owner) <= Len(owner'),
         CallInv, ShortInv, NEW c \in Calls,
         NEW what \in {"ok", "401", "403", "500", "lost"},
         NEW n \in {Null} \cup 1..Len(owner'),
         Answer(c, what, n)
  PROVE  /\ CallInv' /\ ShortInv' /\ \A d \in Calls : Keeps(d)
         /\ call'[c].at = "answered" /\ call'[c].answer = what /\ call'[c].gets = n
         /\ \A d \in Calls \ {c} : call'[d] = call[d]
<1>1. call \in [Calls -> Record(Len(owner'))]
  BY TypesWiden DEF CallInv
<1>2. /\ call' \in [Calls -> Record(Len(owner'))]
      /\ \A d \in Calls : Keeps(d)
      /\ call'[c].at = "answered" /\ call'[c].answer = what /\ call'[c].gets = n
      /\ \A d \in Calls \ {c} : call'[d] = call[d]
  BY <1>1, AnswerEffect
<1>3. WellFormed(call'[c]) /\ Short(call'[c])
  BY <1>2 DEF Keeps, CallInv, ShortInv, WellFormed, Short
<1> QED
  BY <1>2, <1>3 DEF CallInv, ShortInv

LEMMA Appended ==
  ASSUME ServerInv, NEW u \in Users, NEW root \in 0..(Len(owner) + 1),
         owner' = Append(owner, u), chain' = Append(chain, root)
  PROVE  /\ owner' \in Seq(Users) /\ chain' \in Seq(Nat)
         /\ Len(owner') = Len(owner) + 1 /\ Len(chain') = Len(owner')
         /\ Numbers' = Numbers \cup {Fresh}
         /\ \A m \in Numbers : owner'[m] = owner[m] /\ chain'[m] = chain[m]
         /\ owner'[Fresh] = u /\ chain'[Fresh] = root
         /\ \A m \in Numbers' : chain'[m] <= Len(owner')
<1>1. /\ owner' \in Seq(Users) /\ chain' \in Seq(Nat)
      /\ Len(owner') = Len(owner) + 1 /\ Len(chain') = Len(owner')
  BY DEF ServerInv
<1>2. Numbers' = Numbers \cup {Fresh}
  BY <1>1, Counts DEF Numbers, Fresh
<1>3. \A m \in Numbers : owner'[m] = owner[m] /\ chain'[m] = chain[m]
  BY DEF ServerInv, Numbers
<1>4. owner'[Fresh] = u /\ chain'[Fresh] = root
  BY DEF ServerInv, Fresh
<1>5. \A m \in Numbers' : chain'[m] <= Len(owner')
  <2>1. \A m \in Numbers : chain[m] <= Len(owner) /\ chain[m] \in Nat
    BY DEF ServerInv, Numbers
  <2> QED
    BY <1>1, <1>2, <1>3, <1>4, <2>1, Counts
<1> QED
  BY <1>1, <1>2, <1>3, <1>4, <1>5

\* What a call asks the server to exchange is a number, or nothing.
LEMMA Held ==
  ASSUME ServerInv, CallInv
  PROVE  /\ \A c \in Calls : /\ call[c].refresh \in {Null} \cup Numbers
                             /\ call[c].gets \in {Null} \cup Numbers
                             /\ call[c].access \in {Null} \cup Numbers
         /\ \A c \in Rotating : call[c].refresh \in Numbers
         /\ \A n \in Numbers : n \in Nat /\ n # Null /\ chain[n] \in Nat
<1>1. \A c \in Calls : call[c] \in Record(Len(owner))
  BY DEF CallInv
<1>2. \A c \in Calls : /\ call[c].refresh \in {Null} \cup Numbers
                       /\ call[c].gets \in {Null} \cup Numbers
                       /\ call[c].access \in {Null} \cup Numbers
  BY <1>1 DEF Record, Numbers
<1>3. \A n \in Numbers : n \in Nat /\ n # Null /\ chain[n] \in Nat
  BY DEF Numbers, Null, ServerInv
<1>4. \A c \in Rotating : call[c].refresh \in Numbers
  BY <1>2 DEF Rotating, CallInv, WellFormed
<1> QED
  BY <1>2, <1>3, <1>4

-----------------------------------------------------------------------------
(* The server's steps.                                                     *)

\* An answer that brings the browser no token and spends none.
LEMMA PlainAnswer ==
  ASSUME IInv, NEW c \in Calls, NEW what \in {"ok", "401", "403", "500", "lost"},
         Answer(c, what, Null),
         UNCHANGED <<server, browser>>, lost \subseteq lost', lost' \subseteq Numbers,
         failures' \in 0..MaxFailures,
         what = "ok" => call[c].asks \in {"page", "backoffice"},
         Spends(c) => call[c].refresh \in lost'
  PROVE  IInv'
<1>1. /\ CallInv' /\ ShortInv' /\ \A d \in Calls : Keeps(d)
      /\ call'[c].at = "answered" /\ call'[c].answer = what /\ call'[c].gets = Null
      /\ \A d \in Calls \ {c} : call'[d] = call[d]
  <2>1. CallInv /\ ShortInv /\ Len(owner) \in Nat /\ owner' = owner
    BY Counts DEF IInv, server
  <2> QED
    BY <2>1, Answered
<1>2. ServerInv'
  BY DEF IInv, ServerInv, Numbers, server
<1>3. PageInv'
  BY DEF IInv, PageInv, browser, server
<1>4. OneInv'
  <2>1. Rotating' \subseteq Rotating
    BY <1>1 DEF Rotating
  <2>2. refresh' = refresh /\ chain' = chain /\ \A d \in Calls : call'[d].refresh = call[d].refresh
    BY <1>1 DEF server, Keeps
  <2>3. Rotating \subseteq Calls
    BY DEF Rotating
  <2> QED
    BY <2>1, <2>2, <2>3 DEF IInv, OneInv
<1>5. TokenInv'
  <2>1. \A d \in Calls : Gives(d)' => d # c /\ Gives(d) /\ call'[d].gets = call[d].gets
    BY <1>1 DEF Gives, Keeps
  <2>2. \A d \in Calls \ {c} : Spends(d) => Spends(d)'
    BY <1>1 DEF Spends
  <2>3. stored' = stored /\ refresh' = refresh
    BY DEF server, browser
  <2> QED
    BY <1>1, <2>1, <2>2, <2>3 DEF IInv, TokenInv, Keeps
<1>7. CheckingIsPending'
  BY <1>1 DEF IInv, CheckingIsPending, Keeps, browser
<1> QED
  BY <1>1, <1>2, <1>3, <1>4, <1>5, <1>7 DEF IInv

\* A call that was sent or found has spent nothing.
LEMMA NotSpent ==
  ASSUME IInv, NEW c \in Calls, call[c].at \in {"sent", "found"}
  PROVE  ~Spends(c)
BY DEF IInv, CallInv, WellFormed, Spends

LEMMA Refused ==
  ASSUME IInv, NEW c \in Calls, NEW what \in {"ok", "401", "403", "500"},
         call[c].at \in {"sent", "found"}, Answer(c, what, Null),
         UNCHANGED <<server, lost, browser, failures>>,
         what = "ok" => call[c].asks \in {"page", "backoffice"}
  PROVE  IInv'
<1>1. lost' = lost /\ lost \subseteq Numbers /\ failures' \in 0..MaxFailures
  BY DEF IInv, ServerInv, PageInv
<1> QED
  BY <1>1, PlainAnswer, NotSpent

LEMMA PageStep ==
  ASSUME IInv, NEW c \in Calls, ServePage(c)
  PROVE  IInv'
<1>1. (IF Authentic(c) THEN "ok" ELSE "401") \in {"ok", "401", "403", "500"}
  OBVIOUS
<1> QED
  BY <1>1, Refused DEF ServePage, Asked

LEMMA BackofficeStep ==
  ASSUME IInv, NEW c \in Calls, ServeBackoffice(c)
  PROVE  IInv'
<1>1. BackofficeAnswer(c) \in {"ok", "401", "403", "500"}
  BY DEF BackofficeAnswer
<1> QED
  BY <1>1, Refused DEF ServeBackoffice, Asked

\* Only the place of call c, which exchanges a token, changes.
LEMMA Moved ==
  ASSUME IInv, NEW c \in Calls, NEW where \in {"found", "rotated"},
         call[c].at \in {"sent", "found"}, call[c].asks = "refresh",
         call' = [call EXCEPT ![c].at = where],
         UNCHANGED owner
  PROVE  /\ CallInv' /\ ShortInv'
         /\ \A d \in Calls : Keeps(d) /\ call'[d].answer = call[d].answer
                             /\ call'[d].gets = call[d].gets
         /\ call'[c].at = where /\ \A d \in Calls \ {c} : call'[d] = call[d]
<1> DEFINE k == Len(owner)
<1>1. k \in Nat /\ call \in [Calls -> Record(k)]
  BY Counts DEF IInv, CallInv
<1>2. call'[c] = [call[c] EXCEPT !.at = where] /\ \A d \in Calls \ {c} : call'[d] = call[d]
  BY <1>1
<1>3. /\ call'[c] \in Record(k) /\ Keeps(c) /\ call'[c].at = where
      /\ call'[c].answer = call[c].answer /\ call'[c].gets = call[c].gets
  <2> DEFINE r == call[c]  q == call'[c]
  <2>1. r \in Record(k) /\ q = [r EXCEPT !.at = where]
    BY <1>1, <1>2
  <2> HIDE DEF r, q
  <2>2. q \in Record(k)
    BY <2>1 DEF Record
  <2>3. q.kind = r.kind /\ q.asks = r.asks /\ q.stage = r.stage /\ q.fetches = r.fetches
    BY <2>1 DEF Record
  <2>4. q.refresh = r.refresh /\ q.access = r.access /\ q.admin = r.admin
    BY <2>1 DEF Record
  <2>5. q.mounted = r.mounted
    BY <2>1 DEF Record
  <2>6. q.at = where /\ q.answer = r.answer /\ q.gets = r.gets
    BY <2>1 DEF Record
  <2> QED
    BY <2>2, <2>3, <2>4, <2>5, <2>6, Zenon DEF Keeps, r, q
<1>4. call' \in [Calls -> Record(k)]
  BY <1>1, <1>3
<1>5. WellFormed(call'[c]) /\ Short(call'[c])
  BY <1>3 DEF Keeps, IInv, CallInv, ShortInv, WellFormed, Short
<1>6. \A d \in Calls \ {c} : Keeps(d) /\ WellFormed(call'[d]) /\ Short(call'[d])
  BY <1>2 DEF Keeps, IInv, CallInv, ShortInv
<1> QED
  BY <1>2, <1>3, <1>4, <1>5, <1>6 DEF CallInv, ShortInv

LEMMA FindStep ==
  ASSUME IInv, NEW c \in Calls, FindRefreshToken(c)
  PROVE  IInv'
<1>1. /\ call[c].at = "sent" /\ call[c].asks = "refresh"
      /\ UNCHANGED <<server, lost, browser, failures>>
  BY DEF FindRefreshToken, Asked
<1>2. CASE Answer(c, "401", Null)
  BY <1>1, <1>2, Refused
<1>3. CASE call' = [call EXCEPT ![c].at = "found"]
  <2>1. owner' = owner /\ chain' = chain /\ refresh' = refresh /\ lost' = lost
        /\ stored' = stored /\ page' = page
    BY <1>1 DEF server, browser
  <2>2. /\ CallInv' /\ ShortInv'
        /\ \A d \in Calls : Keeps(d) /\ call'[d].answer = call[d].answer
                            /\ call'[d].gets = call[d].gets
        /\ call'[c].at = "found" /\ \A d \in Calls \ {c} : call'[d] = call[d]
    BY <1>1, <1>3, <2>1, Moved
  <2>3. ServerInv' /\ PageInv'
    BY <1>1 DEF IInv, ServerInv, PageInv, Numbers, server, browser
  <2>4. OneInv'
    <3>1. Rotating' = Rotating /\ Rotating \subseteq Calls
      BY <1>1, <2>2 DEF Rotating
    <3>2. \A d \in Calls : call'[d].refresh = call[d].refresh
      BY <2>2 DEF Keeps
    <3> QED
      BY <2>1, <3>1, <3>2 DEF IInv, OneInv
  <2>5. TokenInv'
    <3>1. \A d \in Calls : Gives(d)' => Gives(d)
      BY <2>2 DEF Gives, Keeps
    <3>2. \A d \in Calls : Spends(d) => Spends(d)'
      BY <1>1, <2>2, NotSpent DEF Spends
    <3> QED
      BY <2>1, <2>2, <3>1, <3>2 DEF IInv, TokenInv, Keeps
  <2>7. CheckingIsPending'
    BY <2>1, <2>2 DEF IInv, CheckingIsPending, Keeps
  <2> QED
    BY <2>2, <2>3, <2>4, <2>5, <2>7 DEF IInv
<1> QED
  BY <1>2, <1>3 DEF FindRefreshToken

LEMMA DeleteStep ==
  ASSUME IInv, NEW c \in Calls, DeleteRefreshToken(c)
  PROVE  IInv'
<1>1. /\ call[c].at = "found" /\ call[c].asks = "refresh"
      /\ UNCHANGED <<owner, chain, access, expired, admin, lost, browser, failures>>
  BY DEF DeleteRefreshToken, IInv, CallInv, WellFormed
<1>2. CASE Answer(c, "500", Null) /\ UNCHANGED refresh
  BY <1>1, <1>2, Refused DEF server
<1>3. CASE /\ call[c].refresh \in refresh
           /\ refresh' = refresh \ {call[c].refresh}
           /\ call' = [call EXCEPT ![c].at = "rotated"]
  <2> DEFINE n == call[c].refresh
  <2>1. stored' = stored /\ page' = page /\ owner' = owner /\ chain' = chain /\ lost' = lost
    BY <1>1 DEF browser
  <2>2. /\ CallInv' /\ ShortInv'
        /\ \A d \in Calls : Keeps(d) /\ call'[d].answer = call[d].answer
                            /\ call'[d].gets = call[d].gets
        /\ call'[c].at = "rotated" /\ \A d \in Calls \ {c} : call'[d] = call[d]
    BY <1>1, <1>3, Moved
  <2>3. ServerInv' /\ PageInv'
    BY <1>1, <1>3 DEF IInv, ServerInv, PageInv, Numbers, browser
  <2>4. OneInv'
    <3>1. Rotating' = Rotating \cup {c} /\ c \notin Rotating /\ Rotating \subseteq Calls
      BY <1>1, <2>2 DEF Rotating
    <3>2. \A d \in Calls : call'[d].refresh = call[d].refresh
      BY <2>2 DEF Keeps
    <3>3. \A d \in Rotating : chain[n] # chain[call[d].refresh]
      BY <1>3 DEF IInv, OneInv
    <3>4. \A m \in refresh' : m \in refresh /\ chain[m] # chain[n]
      BY <1>3 DEF IInv, OneInv
    <3>5. \A m, o \in refresh' : chain'[m] = chain'[o] => m = o
      BY <2>1, <3>4 DEF IInv, OneInv
    <3>6. \A d, e \in Rotating' : chain'[call'[d].refresh] = chain'[call'[e].refresh] => d = e
      BY <2>1, <3>1, <3>2, <3>3 DEF IInv, OneInv
    <3>7. \A m \in refresh' : \A d \in Rotating' : chain'[m] # chain'[call'[d].refresh]
      BY <2>1, <3>1, <3>2, <3>4 DEF IInv, OneInv
    <3> QED
      BY <3>5, <3>6, <3>7 DEF OneInv
  <2>5. TokenInv'
    <3>1. \A d \in Calls : Gives(d)' => Gives(d)
      BY <2>2 DEF Gives, Keeps
    <3>2. Spends(c)' /\ \A d \in Calls : Spends(d) => Spends(d)'
      BY <1>1, <2>2 DEF Spends, Keeps
    <3>3. \A d \in Calls : Gives(d) => call[d].gets # n
      BY <1>1 DEF IInv, TokenInv
    <3>4. stored'.refresh \in {Null} \cup refresh' \cup lost'
            \/ \E d \in Calls : Spends(d)' /\ call'[d].refresh = stored'.refresh
      BY <1>3, <2>1, <2>2, <3>2 DEF IInv, TokenInv, Keeps
    <3>5. \A d \in Calls : Gives(d)' =>
            /\ call'[d].gets \in refresh' /\ call'[d].gets # stored'.refresh
            /\ \A e \in Calls : call'[e].asks = "refresh" => call'[e].refresh # call'[d].gets
            /\ \A e \in Calls \ {d} : Gives(e)' => call'[e].gets # call'[d].gets
      BY <1>3, <2>1, <2>2, <3>1, <3>3 DEF IInv, TokenInv, Keeps
    <3>6. \A d \in Calls :
            call'[d].kind = "orphan" /\ call'[d].asks = "refresh" => call'[d].refresh \in lost'
      BY <2>1, <2>2 DEF IInv, TokenInv, Keeps
    <3> QED
      BY <3>4, <3>5, <3>6 DEF TokenInv
  <2>7. CheckingIsPending'
    BY <2>1, <2>2 DEF IInv, CheckingIsPending, Keeps
  <2> QED
    BY <2>2, <2>3, <2>4, <2>5, <2>7 DEF IInv
<1> QED
  BY <1>2, <1>3 DEF DeleteRefreshToken

\* The server issues a token, and answers call c with it.
LEMMA Issued ==
  ASSUME IInv, NEW c \in Calls, NEW u \in Users, NEW root \in 0..(Len(owner) + 1),
         owner' = Append(owner, u), chain' = Append(chain, root),
         access' \subseteq access \cup {Fresh}, refresh' \subseteq refresh \cup {Fresh},
         admin' \subseteq admin \cup {Fresh},
         admin' = admin \/ (access' = access /\ refresh' = refresh),
         call[c].asks \in {"login", "refresh", "session"}, Answer(c, "ok", Fresh),
         UNCHANGED <<expired, lost, browser, failures>>
  PROVE  /\ ServerInv' /\ PageInv' /\ CallInv' /\ ShortInv' /\ CheckingIsPending'
         /\ \A d \in Calls : Keeps(d)
         /\ call'[c].at = "answered" /\ call'[c].answer = "ok" /\ call'[c].gets = Fresh
         /\ \A d \in Calls \ {c} : call'[d] = call[d]
<1>1. ServerInv /\ Len(owner) \in Nat /\ Fresh = Len(owner) + 1 /\ Fresh \notin Numbers
  BY Counts DEF IInv
<1>2. /\ owner' \in Seq(Users) /\ chain' \in Seq(Nat)
      /\ Len(owner') = Len(owner) + 1 /\ Len(chain') = Len(owner')
      /\ Numbers' = Numbers \cup {Fresh}
      /\ \A m \in Numbers : owner'[m] = owner[m] /\ chain'[m] = chain[m]
      /\ \A m \in Numbers' : chain'[m] <= Len(owner')
  BY <1>1, Appended
<1>3. ServerInv'
  <2>1. admin' \cap (access' \cup refresh') = {}
    BY <1>1 DEF ServerInv
  <2> QED
    BY <1>1, <1>2, <2>1 DEF ServerInv
<1>4. Len(owner') \in Nat /\ Len(owner) <= Len(owner')
  BY <1>1, <1>2
<1>5. PageInv'
  <2>1. stored \in Storage(Len(owner'))
    BY <1>1, <1>4, TypesWiden DEF IInv, PageInv
  <2> QED
    BY <2>1 DEF IInv, PageInv, browser
<1>6. /\ CallInv' /\ ShortInv' /\ \A d \in Calls : Keeps(d)
      /\ call'[c].at = "answered" /\ call'[c].answer = "ok" /\ call'[c].gets = Fresh
      /\ \A d \in Calls \ {c} : call'[d] = call[d]
  <2>1. Fresh \in {Null} \cup 1..Len(owner')
    BY <1>1, <1>2
  <2> QED
    BY <1>1, <1>4, <2>1, Answered DEF IInv
<1>8. CheckingIsPending'
  BY <1>6 DEF IInv, CheckingIsPending, Keeps, browser
<1> QED
  BY <1>3, <1>5, <1>6, <1>8

\* Nobody holds the token about to be issued.
LEMMA FreshIsUnknown ==
  ASSUME IInv
  PROVE  /\ Fresh # stored.refresh /\ Fresh \notin refresh
         /\ \A d \in Calls : call[d].refresh # Fresh /\ call[d].gets # Fresh
<1>1. /\ Fresh \notin Numbers /\ Fresh # Null
  BY Counts DEF IInv, Fresh, Null
<1>2. stored.refresh \in {Null} \cup Numbers
  BY DEF IInv, PageInv, Storage, Numbers
<1>3. ServerInv /\ CallInv /\ refresh \subseteq Numbers
  BY DEF IInv, ServerInv
<1>4. \A d \in Calls : call[d].refresh \in {Null} \cup Numbers /\ call[d].gets \in {Null} \cup Numbers
  BY <1>3, Held
<1> QED
  BY <1>1, <1>2, <1>3, <1>4

\* A pair issued to call c, under a login that has no other token, keeps the invariant.
LEMMA PairIssued ==
  ASSUME IInv, NEW c \in Calls, NEW u \in Users, NEW root \in 0..(Len(owner) + 1),
         issueTokens(u, root), refresh' = refresh \cup {Fresh}, Answer(c, "ok", Fresh),
         UNCHANGED <<expired, admin, lost, browser, failures>>,
         call[c].asks \in {"login", "refresh"},
         call[c].asks = "refresh" => call[c].at = "rotated",
         \A n \in refresh : chain[n] # root,
         \A d \in Rotating \ {c} : chain[call[d].refresh] # root
  PROVE  IInv'
<1>1. /\ owner' = Append(owner, u) /\ chain' = Append(chain, root)
      /\ access' = access \cup {Fresh} /\ stored' = stored /\ lost' = lost
  BY DEF issueTokens, browser
<1>2. /\ ServerInv' /\ PageInv' /\ CallInv' /\ ShortInv' /\ CheckingIsPending'
      /\ \A d \in Calls : Keeps(d)
      /\ call'[c].at = "answered" /\ call'[c].answer = "ok" /\ call'[c].gets = Fresh
      /\ \A d \in Calls \ {c} : call'[d] = call[d]
  BY <1>1, Issued
<1>3. /\ \A m \in Numbers : chain'[m] = chain[m]
      /\ chain'[Fresh] = root
  BY <1>1, Appended DEF IInv
<1>4. refresh \subseteq Numbers /\ \A d \in Rotating : call[d].refresh \in Numbers
  BY Held DEF IInv, ServerInv
<1>5. /\ Fresh # stored.refresh /\ Fresh \notin refresh
      /\ \A d \in Calls : call[d].refresh # Fresh /\ call[d].gets # Fresh
  BY FreshIsUnknown
<1>6. OneInv'
  <2>1. Rotating' \subseteq Rotating \ {c}
    BY <1>2 DEF Rotating
  <2>2. \A d \in Rotating' : chain'[call'[d].refresh] = chain[call[d].refresh]
    BY <1>2, <1>3, <1>4, <2>1 DEF Rotating
  <2>3. \A n \in refresh : chain'[n] = chain[n]
    BY <1>3, <1>4
  <2>4. \A n, m \in refresh' : chain'[n] = chain'[m] => n = m
    BY <1>3, <2>3 DEF IInv, OneInv
  <2>5. \A d, e \in Rotating' : chain'[call'[d].refresh] = chain'[call'[e].refresh] => d = e
    BY <2>1, <2>2 DEF IInv, OneInv
  <2>6. \A n \in refresh' : \A d \in Rotating' : chain'[n] # chain'[call'[d].refresh]
    BY <1>3, <2>1, <2>2, <2>3 DEF IInv, OneInv
  <2> QED
    BY <2>4, <2>5, <2>6 DEF OneInv
<1>7. TokenInv'
  <2>1. \A d \in Calls \ {c} : Gives(d)' <=> Gives(d)
    BY <1>2 DEF Gives
  <2>2. \A d \in Calls : Spends(d) => Spends(d)'
    BY <1>2 DEF Spends, Keeps
  <2>3. \A d \in Calls : call'[d].asks = call[d].asks /\ call'[d].refresh = call[d].refresh
                         /\ call'[d].kind = call[d].kind
    BY <1>2 DEF Keeps
  <2>4. stored'.refresh \in {Null} \cup refresh' \cup lost'
          \/ \E d \in Calls : Spends(d)' /\ call'[d].refresh = stored'.refresh
    BY <1>1, <2>2, <2>3 DEF IInv, TokenInv
  <2>5. \A d \in Calls : Gives(d)' => call'[d].gets \in refresh' /\ call'[d].gets # stored'.refresh
    BY <1>1, <1>2, <1>5, <2>1 DEF IInv, TokenInv
  <2>6. \A d \in Calls : Gives(d)' =>
          \A e \in Calls : call'[e].asks = "refresh" => call'[e].refresh # call'[d].gets
    BY <1>2, <1>5, <2>1, <2>3 DEF IInv, TokenInv
  <2>7. \A d \in Calls : Gives(d)' =>
          \A e \in Calls \ {d} : Gives(e)' => call'[e].gets # call'[d].gets
    BY <1>2, <1>5, <2>1 DEF IInv, TokenInv
  <2>8. \A d \in Calls :
          call'[d].kind = "orphan" /\ call'[d].asks = "refresh" => call'[d].refresh \in lost'
    BY <1>1, <2>3 DEF IInv, TokenInv
  <2> QED
    BY <2>4, <2>5, <2>6, <2>7, <2>8 DEF TokenInv
<1> QED
  BY <1>2, <1>6, <1>7 DEF IInv

LEMMA LoginStep ==
  ASSUME IInv, NEW c \in Calls, NEW u \in Users, login(c, u)
  PROVE  IInv'
<1>1. Fresh \in 0..(Len(owner) + 1) /\ Fresh = Len(owner) + 1
  BY Counts DEF IInv
<1>2. \A n \in Numbers : chain[n] # Fresh
  BY <1>1, Counts DEF IInv, ServerInv
<1>3. refresh \subseteq Numbers /\ \A d \in Rotating : call[d].refresh \in Numbers
  BY Held DEF IInv, ServerInv
<1> QED
  BY <1>1, <1>2, <1>3, PairIssued DEF login, Asked

LEMMA CreateStep ==
  ASSUME IInv, NEW c \in Calls, CreateRefreshToken(c)
  PROVE  IInv'
<1> DEFINE n == call[c].refresh
<1>1. c \in Rotating /\ call[c].at = "rotated" /\ call[c].asks = "refresh"
  BY DEF CreateRefreshToken, IInv, CallInv, WellFormed, Rotating
<1>2. n \in Numbers
  BY <1>1, Held DEF IInv
<1>3. owner[n] \in Users /\ chain[n] \in 0..(Len(owner) + 1)
  BY <1>2, Counts DEF IInv, ServerInv
<1>4. \A m \in refresh : chain[m] # chain[n]
  BY <1>1 DEF IInv, OneInv
<1>5. \A d \in Rotating \ {c} : chain[call[d].refresh] # chain[n]
  BY <1>1 DEF IInv, OneInv
<1> QED
  BY <1>1, <1>3, <1>4, <1>5, PairIssued DEF CreateRefreshToken

LEMMA SessionStep ==
  ASSUME IInv, NEW c \in Calls, issueAdminSession(c)
  PROVE  IInv'
<1>1. call[c].at = "sent" /\ call[c].asks = "session"
  BY DEF issueAdminSession, Asked
<1>2. SessionAnswer(c) \in {"ok", "401", "403", "500"}
  BY DEF SessionAnswer
<1>3. CASE SessionAnswer(c) # "ok"
  BY <1>1, <1>2, <1>3, Refused DEF issueAdminSession, server
<1>4. CASE SessionAnswer(c) = "ok"
  <2> DEFINE u == owner[call[c].access]
  <2>1. /\ owner' = Append(owner, u) /\ chain' = Append(chain, Null)
        /\ admin' = admin \cup {Fresh} /\ Answer(c, "ok", Fresh)
        /\ access' = access /\ refresh' = refresh
        /\ UNCHANGED <<expired, lost, browser, failures>>
    BY <1>4 DEF issueAdminSession
  <2>2. u \in Users /\ Null \in 0..(Len(owner) + 1)
    <3>1. call[c].access \in Numbers
      BY <1>4 DEF SessionAnswer, Authentic, IInv, ServerInv
    <3> QED
      BY <3>1, Counts DEF IInv, ServerInv, Null
  <2>3. /\ ServerInv' /\ PageInv' /\ CallInv' /\ ShortInv' /\ CheckingIsPending'
        /\ \A d \in Calls : Keeps(d)
        /\ call'[c].at = "answered" /\ call'[c].answer = "ok" /\ call'[c].gets = Fresh
        /\ \A d \in Calls \ {c} : call'[d] = call[d]
    BY <1>1, <2>1, <2>2, Issued
  <2>4. \A m \in Numbers : chain'[m] = chain[m]
    BY <2>1, <2>2, Appended DEF IInv
  <2>5. refresh \subseteq Numbers /\ \A d \in Rotating : call[d].refresh \in Numbers
    BY Held DEF IInv, ServerInv
  <2>6. OneInv'
    <3>1. Rotating' = Rotating /\ Rotating \subseteq Calls
      BY <1>1, <2>3 DEF Rotating
    <3>2. \A d \in Rotating : chain'[call'[d].refresh] = chain[call[d].refresh]
      BY <2>3, <2>4, <2>5, <3>1 DEF Keeps
    <3>3. refresh' = refresh /\ \A n \in refresh : chain'[n] = chain[n]
      BY <2>1, <2>4, <2>5
    <3>4. \A n, m \in refresh' : chain'[n] = chain'[m] => n = m
      BY <3>3 DEF IInv, OneInv
    <3>5. \A d, e \in Rotating' : chain'[call'[d].refresh] = chain'[call'[e].refresh] => d = e
      BY <3>1, <3>2 DEF IInv, OneInv
    <3>6. \A n \in refresh' : \A d \in Rotating' : chain'[n] # chain'[call'[d].refresh]
      BY <3>1, <3>2, <3>3 DEF IInv, OneInv
    <3> QED
      BY <3>4, <3>5, <3>6 DEF OneInv
  <2>7. TokenInv'
    <3>1. \A d \in Calls : (Gives(d)' <=> Gives(d)) /\ (Gives(d) => call'[d].gets = call[d].gets)
      BY <1>1, <2>3 DEF Gives, Keeps
    <3>2. \A d \in Calls : Spends(d) => Spends(d)'
      BY <1>1, <2>3, NotSpent DEF Spends
    <3>3. stored' = stored /\ lost' = lost
      BY <2>1 DEF browser
    <3> QED
      BY <2>1, <2>3, <3>1, <3>2, <3>3 DEF IInv, TokenInv, Keeps
  <2> QED
    BY <2>3, <2>6, <2>7 DEF IInv
<1> QED
  BY <1>3, <1>4

-----------------------------------------------------------------------------
(* The browser's steps.                                                    *)

Pending(r) == r.kind = "open" /\ r.mounted
ServerStays == UNCHANGED <<server, lost, failures>>

\* What a step leaves in the storage: the refresh token call c brought, if it brought
\* one, and otherwise the one that was there, or none.
TokenTaken(c) ==
  IF Gives(c) THEN stored'.refresh = call[c].gets ELSE stored'.refresh \in {Null, stored.refresh}

\* Call c, which was answered or not yet begun, becomes q: another request, or none.
LEMMA MoveOn ==
  ASSUME IInv, NEW c \in Calls, call[c].at = "answered" \/ call[c].kind = "none",
         NEW q \in Record(Len(owner)), WellFormed(q), Short(q),
         q.at \in {"idle", "sent"}, q.kind # "orphan",
         q.asks = "refresh" => q.refresh = stored.refresh,
         call' = [call EXCEPT ![c] = q], ServerStays,
         stored' \in Storage(Len(owner)), TokenTaken(c),
         authed' \in BOOLEAN, password' \in Passwords,
         page' \in {"closed", "checking", "need-password", "ready", "denied"},
         page' = "checking" => Pending(q) \/ (page = "checking" /\ ~Pending(call[c]))
  PROVE  IInv'
<1>1. /\ owner' = owner /\ chain' = chain /\ refresh' = refresh /\ lost' = lost
      /\ failures' = failures /\ Numbers' = Numbers /\ Len(owner') = Len(owner)
  BY DEF ServerStays, server, Numbers
<1>2. /\ CallInv' /\ ShortInv'
      /\ call'[c] = q /\ \A d \in Calls \ {c} : call'[d] = call[d]
  <2>1. /\ Len(owner) \in Nat /\ Len(owner') \in Nat /\ Len(owner) <= Len(owner')
        /\ CallInv /\ ShortInv /\ q \in Record(Len(owner'))
    BY <1>1, Counts DEF IInv
  <2> QED
    BY <2>1, Update
<1>3. ServerInv'
  BY <1>1 DEF IInv, ServerInv, ServerStays, server
<1>4. PageInv'
  BY <1>1 DEF IInv, PageInv
<1>5. q.answer = "none"
  BY DEF WellFormed
<1>6. OneInv'
  <2>1. Rotating' \subseteq Rotating /\ \A d \in Rotating' : call'[d] = call[d]
    BY <1>2 DEF Rotating
  <2>2. \A d, e \in Rotating' : chain'[call'[d].refresh] = chain'[call'[e].refresh] => d = e
    BY <1>1, <2>1 DEF IInv, OneInv
  <2>3. \A n \in refresh' : \A d \in Rotating' : chain'[n] # chain'[call'[d].refresh]
    BY <1>1, <2>1 DEF IInv, OneInv
  <2> QED
    BY <1>1, <2>2, <2>3 DEF IInv, OneInv
<1>7. TokenInv'
  <2>1. \A d \in Calls : Gives(d)' => d # c /\ Gives(d) /\ call'[d] = call[d]
    BY <1>2, <1>5 DEF Gives
  <2>2. \A d \in Calls \ {c} : Spends(d) => Spends(d)'
    BY <1>2 DEF Spends
  <2>3. \A d \in Calls : Gives(d)' =>
          /\ call'[d].gets \in refresh'
          /\ \A e \in Calls : call'[e].asks = "refresh" => call'[e].refresh # call'[d].gets
          /\ \A e \in Calls \ {d} : Gives(e)' => call'[e].gets # call'[d].gets
    BY <1>1, <1>2, <2>1 DEF IInv, TokenInv
  <2>4. \A d \in Calls :
          call'[d].kind = "orphan" /\ call'[d].asks = "refresh" => call'[d].refresh \in lost'
    BY <1>1, <1>2 DEF IInv, TokenInv
  <2>5. ASSUME Gives(c)
        PROVE  /\ stored'.refresh \in refresh'
               /\ \A d \in Calls : Gives(d)' => call'[d].gets # stored'.refresh
    <3>1. stored'.refresh = call[c].gets
      BY <2>5 DEF TokenTaken
    <3> QED
      BY <1>1, <2>1, <2>5, <3>1 DEF IInv, TokenInv
  <2>6. ASSUME ~Gives(c)
        PROVE  /\ stored'.refresh \in {Null} \cup refresh' \cup lost'
                    \/ \E d \in Calls : Spends(d)' /\ call'[d].refresh = stored'.refresh
               /\ \A d \in Calls : Gives(d)' => call'[d].gets # stored'.refresh
    <3>1. stored'.refresh \in {Null, stored.refresh}
      BY <2>6 DEF TokenTaken
    <3>2. Spends(c) => call[c].refresh \in lost
      <4>1. Spends(c) => call[c].at = "answered" /\ call[c].answer = "ok"
                         /\ call[c].asks = "refresh"
        BY DEF Spends, IInv, CallInv, WellFormed
      <4> QED
        BY <2>6, <4>1 DEF Gives, IInv, TokenInv
    <3>3. stored'.refresh \in {Null} \cup refresh' \cup lost'
            \/ \E d \in Calls : Spends(d)' /\ call'[d].refresh = stored'.refresh
      BY <1>1, <1>2, <2>2, <3>1, <3>2 DEF IInv, TokenInv
    <3>4. Null \notin refresh
      BY Held DEF IInv, ServerInv
    <3>5. \A d \in Calls : Gives(d)' => call'[d].gets # stored'.refresh
      BY <2>1, <3>1, <3>4 DEF IInv, TokenInv
    <3> QED
      BY <3>3, <3>5
  <2> QED
    BY <2>3, <2>4, <2>5, <2>6 DEF TokenInv
<1>9. CheckingIsPending'
  <2>1. page' = "checking" /\ Pending(q) => \E d \in Calls : Pending(call'[d])
    BY <1>2
  <2>2. page = "checking" /\ ~Pending(call[c]) => \E d \in Calls : Pending(call'[d])
    BY <1>2 DEF IInv, CheckingIsPending, Pending
  <2> QED
    BY <2>1, <2>2 DEF CheckingIsPending, Pending
<1> QED
  BY <1>2, <1>3, <1>4, <1>6, <1>7, <1>9 DEF IInv

\* Call c ends.
LEMMA Ends ==
  ASSUME IInv, NEW c \in Calls, call[c].at = "answered", NEW s \in Storage(Len(owner)),
         End(c, s), ServerStays, TokenTaken(c), password' = password, authed' \in BOOLEAN,
         page' \in {"closed", "checking", "need-password", "ready", "denied"},
         page' = "checking" => page = "checking" /\ ~Pending(call[c])
  PROVE  IInv'
<1>1. /\ Idle \in Record(Len(owner)) /\ WellFormed(Idle) /\ Short(Idle)
      /\ Idle.kind = "none" /\ Idle.at = "idle" /\ Idle.asks = "none"
  BY IdleEffect, Counts DEF IInv
<1>2. password' \in Passwords
  BY DEF IInv, PageInv
<1> QED
  BY <1>1, <1>2, MoveOn DEF End

LEMMA EndsQuietly ==
  ASSUME IInv, NEW c \in Calls, call[c].at = "answered", NEW s \in Storage(Len(owner)),
         End(c, s), ServerStays, TokenTaken(c), password' = password,
         authed' \in BOOLEAN, page' = page, call[c].kind # "open"
  PROVE  IInv'
<1>1. page' \in {"closed", "checking", "need-password", "ready", "denied"}
  BY DEF IInv, PageInv
<1>2. page' = "checking" => page = "checking" /\ ~Pending(call[c])
  BY DEF Pending
<1> QED
  BY <1>1, <1>2, Ends, ZenonT(60)

\* Call c goes on as r, in a later stage perhaps, and sends another request.
LEMMA GoesOn ==
  ASSUME IInv, NEW c \in Calls, call[c].at = "answered",
         NEW r \in Record(Len(owner)), r.kind = call[c].kind, r.mounted = call[c].mounted,
         r.fetches = call[c].fetches, r.kind \notin {"none", "login", "orphan"},
         NEW what \in {"page", "backoffice", "refresh", "session"},
         call[c].fetches + 1 <= Spent(r.kind, r.stage, what),
         what = "refresh" => r.stage = "first" /\ stored.refresh # Null,
         what = "session" => r.stage = "last",
         NEW s \in Storage(Len(owner)), what = "refresh" => s = stored,
         Continue(c, r, what, s), ServerStays, TokenTaken(c),
         UNCHANGED <<authed, page, password>>
  PROVE  IInv'
<1> DEFINE q == Send(r, what, s, password)
<1>1. Len(owner) \in Nat /\ password \in Passwords /\ authed' \in BOOLEAN
      /\ page' \in {"closed", "checking", "need-password", "ready", "denied"}
  BY Counts DEF IInv, PageInv
<1>2. q \in Record(Len(owner)) /\ IsSent(q, r, what, s)
  BY <1>1, SendEffect
<1> HIDE DEF q
<1>3. WellFormed(q) /\ Short(q)
  BY <1>2 DEF IsSent, WellFormed, Short
<1>4. page' = "checking" => Pending(q) \/ (page = "checking" /\ ~Pending(call[c]))
  BY <1>2 DEF IsSent, Pending
<1>5. q.at = "sent" /\ q.kind # "orphan" /\ (q.asks = "refresh" => q.refresh = stored.refresh)
  BY <1>2 DEF IsSent
<1>6. call' = [call EXCEPT ![c] = q] /\ stored' = s /\ password' \in Passwords
  BY <1>1 DEF Continue, q
<1>7. stored' \in Storage(Len(owner)) /\ q \in Record(Len(owner))
  BY <1>2, <1>6
<1> QED
  BY <1>1, <1>3, <1>4, <1>5, <1>6, <1>7, MoveOn, ZenonT(60)

\* Call c goes on in a later stage.
LEMMA GoesOnLater ==
  ASSUME IInv, NEW c \in Calls, call[c].at = "answered",
         NEW stage \in {"first", "second", "last"},
         call[c].kind \notin {"none", "login", "orphan"},
         NEW what \in {"page", "backoffice", "session"},
         call[c].fetches + 1 <= Spent(call[c].kind, stage, what),
         what = "session" => stage = "last",
         NEW s \in Storage(Len(owner)),
         Continue(c, [call[c] EXCEPT !.stage = stage], what, s), ServerStays, TokenTaken(c),
         UNCHANGED <<authed, page, password>>
  PROVE  IInv'
<1> DEFINE o == call[c]  r == [o EXCEPT !.stage = stage]
<1>1. o \in Record(Len(owner))
  BY DEF IInv, CallInv
<1> HIDE DEF o
<1>2. r \in Record(Len(owner))
  BY <1>1 DEF Record
<1>3. r.kind = o.kind /\ r.fetches = o.fetches /\ r.stage = stage
  BY <1>1 DEF Record
<1>4. r.mounted = o.mounted
  BY <1>1 DEF Record
<1>5. Continue(c, r, what, s)
  BY DEF o
<1> HIDE DEF r
<1>6. /\ r.kind = call[c].kind /\ r.mounted = call[c].mounted /\ r.fetches = call[c].fetches
      /\ r.kind \notin {"none", "login", "orphan"}
      /\ call[c].fetches + 1 <= Spent(r.kind, r.stage, what)
      /\ (what = "session" => r.stage = "last")
  BY <1>3, <1>4, Zenon DEF o
<1>7. what \in {"page", "backoffice", "refresh", "session"} /\ what # "refresh"
  OBVIOUS
<1> QED
  BY <1>2, <1>5, <1>6, <1>7, GoesOn, ZenonT(60)

\* The storage's values, and the refresh token in each.
LEMMA Storages ==
  ASSUME IInv
  PROVE  /\ stored \in Storage(Len(owner))
         /\ LoggedOut \in Storage(Len(owner)) /\ LoggedOut.refresh = Null
         /\ clearAdminSession \in Storage(Len(owner))
         /\ clearAdminSession.refresh = stored.refresh
         /\ \A c \in Calls :
              /\ setTokens(call[c].gets) \in Storage(Len(owner))
              /\ setTokens(call[c].gets).refresh = call[c].gets
              /\ [stored EXCEPT !.admin = call[c].gets] \in Storage(Len(owner))
              /\ [stored EXCEPT !.admin = call[c].gets].refresh = stored.refresh
<1>1. stored \in Storage(Len(owner))
  BY DEF IInv, PageInv
<1>2. LoggedOut \in Storage(Len(owner)) /\ LoggedOut.refresh = Null
  BY DEF LoggedOut, Storage
<1>3. clearAdminSession \in Storage(Len(owner)) /\ clearAdminSession.refresh = stored.refresh
  BY <1>1 DEF clearAdminSession, Storage
<1>4. ASSUME NEW c \in Calls
      PROVE  /\ setTokens(call[c].gets) \in Storage(Len(owner))
             /\ setTokens(call[c].gets).refresh = call[c].gets
             /\ [stored EXCEPT !.admin = call[c].gets] \in Storage(Len(owner))
             /\ [stored EXCEPT !.admin = call[c].gets].refresh = stored.refresh
  <2>1. call[c].gets \in {Null} \cup 1..Len(owner)
    BY Held DEF IInv, Numbers
  <2> QED
    BY <1>1, <2>1 DEF setTokens, Storage
<1> QED
  BY <1>1, <1>2, <1>3, <1>4

\* How far call c may have come.
LEMMA Counted ==
  ASSUME IInv, NEW c \in Calls
  PROVE  /\ call[c].fetches \in Nat
         /\ call[c].stage \in {"first", "second", "last"}
         /\ call[c].fetches <= Spent(call[c].kind, call[c].stage, call[c].asks)
         /\ call[c].kind # "orphan" /\ call[c].asks = "refresh" => call[c].stage = "first"
         /\ call[c].kind = "admin" /\ call[c].asks = "session" => call[c].stage = "last"
BY DEF IInv, CallInv, ShortInv, Short, Record

\* A refused call goes to exchange the stored refresh token.
LEMMA RefreshesStep ==
  ASSUME IInv, NEW c \in Calls, call[c].at = "answered",
         call[c].kind \in {"member", "admin", "open"},
         call[c].asks \in {"page", "backoffice", "session"},
         Refreshable(c), Continue(c, call[c], "refresh", stored),
         ServerStays, UNCHANGED <<authed, page, password>>
  PROVE  IInv'
<1> DEFINE r == call[c]
<1>1. r.stage = "first" /\ stored.refresh # Null
  BY DEF Refreshable
<1>2. call[c].fetches + 1 <= Spent(r.kind, r.stage, "refresh")
  BY <1>1, Counted DEF Spent
<1>3. TokenTaken(c)
  BY DEF Continue, TokenTaken, Refreshable, Gives
<1>4. /\ r \in Record(Len(owner)) /\ stored \in Storage(Len(owner))
      /\ r.kind \notin {"none", "login", "orphan"} /\ r.kind = call[c].kind
      /\ r.mounted = call[c].mounted /\ r.fetches = call[c].fetches
      /\ Continue(c, r, "refresh", stored)
  BY DEF IInv, CallInv, PageInv
<1> HIDE DEF r
<1> QED
  BY <1>1, <1>2, <1>3, <1>4, GoesOn, ZenonT(60)

LEMMA GotPageStep ==
  ASSUME IInv, NEW c \in Calls, GotPage(c)
  PROVE  IInv'
<1>1. /\ call[c].at = "answered" /\ call[c].kind = "member" /\ call[c].asks = "page"
      /\ ServerStays /\ UNCHANGED <<authed, page, password>> /\ ~Gives(c)
  BY DEF GotPage, Got, ServerStays, Gives
<1>2. CASE Refreshable(c)
  BY <1>1, <1>2, RefreshesStep DEF GotPage
<1>3. CASE ~Refreshable(c)
  <2>1. End(c, stored) /\ TokenTaken(c)
    BY <1>1, <1>3 DEF GotPage, End, TokenTaken
  <2> QED
    BY <1>1, <2>1, EndsQuietly, Storages DEF IInv, PageInv
<1> QED
  BY <1>2, <1>3

LEMMA GotRefreshStep ==
  ASSUME IInv, NEW c \in Calls, GotRefresh(c)
  PROVE  IInv'
<1>1. /\ call[c].at = "answered" /\ call[c].kind = "member" /\ call[c].asks = "refresh"
      /\ ServerStays /\ UNCHANGED <<authed, page, password>>
      /\ Gives(c) <=> call[c].answer = "ok"
  BY DEF GotRefresh, Got, ServerStays, Gives
<1>2. CASE call[c].answer = "ok"
  <2>1. Continue(c, [call[c] EXCEPT !.stage = "last"], "page", setTokens(call[c].gets))
    BY <1>2 DEF GotRefresh
  <2>2. call[c].fetches + 1 <= Spent(call[c].kind, "last", "page")
    BY <1>1, Counted DEF Spent
  <2>3. TokenTaken(c) /\ setTokens(call[c].gets) \in Storage(Len(owner))
    BY <1>1, <1>2, <2>1, Storages DEF Continue, TokenTaken
  <2> QED
    BY <1>1, <2>1, <2>2, <2>3, GoesOnLater
<1>3. CASE call[c].answer # "ok"
  <2>1. PICK s \in {stored, LoggedOut} : End(c, s)
    BY <1>3 DEF GotRefresh
  <2>2. s \in Storage(Len(owner)) /\ s.refresh \in {Null, stored.refresh}
    BY Storages
  <2>3. TokenTaken(c)
    BY <1>1, <1>3, <2>1, <2>2 DEF End, TokenTaken
  <2> QED
    BY <1>1, <2>1, <2>2, <2>3, EndsQuietly DEF IInv, PageInv
<1> QED
  BY <1>2, <1>3

LEMMA GotLoginStep ==
  ASSUME IInv, NEW c \in Calls, GotLogin(c)
  PROVE  IInv'
<1>1. /\ call[c].at = "answered" /\ call[c].kind = "login" /\ call[c].asks = "login"
      /\ ServerStays /\ page' = page /\ password' = password
      /\ Gives(c) <=> call[c].answer = "ok"
  BY DEF GotLogin, Got, ServerStays, Gives
<1>2. authed' \in BOOLEAN
  BY DEF GotLogin, IInv, PageInv
<1>3. CASE call[c].answer = "ok"
  <2>1. End(c, setTokens(call[c].gets))
    BY <1>3 DEF GotLogin
  <2>2. setTokens(call[c].gets) \in Storage(Len(owner)) /\ TokenTaken(c)
    BY <1>1, <1>3, <2>1, Storages DEF End, TokenTaken
  <2> QED
    BY <1>1, <1>2, <2>1, <2>2, EndsQuietly
<1>4. CASE call[c].answer # "ok"
  <2>1. End(c, stored)
    BY <1>4 DEF GotLogin
  <2>2. stored \in Storage(Len(owner)) /\ TokenTaken(c)
    BY <1>1, <1>4, <2>1, Storages DEF End, TokenTaken
  <2> QED
    BY <1>1, <1>2, <2>1, <2>2, EndsQuietly
<1> QED
  BY <1>3, <1>4

\* A backoffice call asks for a new admin session, or gives up.
LEMMA ReopenStep ==
  ASSUME IInv, NEW c \in Calls, call[c].at = "answered", call[c].kind = "admin",
         call[c].fetches <= 3, ~Gives(c), Reopen(c, clearAdminSession),
         ServerStays, UNCHANGED <<authed, page, password>>
  PROVE  IInv'
<1>1. /\ clearAdminSession \in Storage(Len(owner))
      /\ clearAdminSession.refresh = stored.refresh
  BY Storages
<1>2. stored' = clearAdminSession
  BY DEF Reopen, End, Continue
<1>3. TokenTaken(c)
  BY <1>1, <1>2 DEF TokenTaken
<1>4. CASE End(c, clearAdminSession)
  BY <1>1, <1>3, <1>4, EndsQuietly DEF IInv, PageInv
<1>5. CASE Continue(c, [call[c] EXCEPT !.stage = "last"], "session", clearAdminSession)
  <2>1. call[c].fetches + 1 <= Spent(call[c].kind, "last", "session")
    BY Counted DEF Spent
  <2> QED
    BY <1>1, <1>3, <1>5, <2>1, GoesOnLater
<1> QED
  BY <1>4, <1>5 DEF Reopen

LEMMA GotBackofficeStep ==
  ASSUME IInv, NEW c \in Calls, GotBackoffice(c)
  PROVE  IInv'
<1>1. /\ call[c].at = "answered" /\ call[c].kind = "admin" /\ call[c].asks = "backoffice"
      /\ ServerStays /\ UNCHANGED <<authed, page, password>> /\ ~Gives(c)
  BY DEF GotBackoffice, Got, ServerStays, Gives
<1>2. CASE Refreshable(c)
  BY <1>1, <1>2, RefreshesStep DEF GotBackoffice
<1>3. CASE call[c].answer = "401" /\ call[c].stage # "last" /\ ~Refreshable(c)
  <2>1. Reopen(c, clearAdminSession)
    BY <1>3 DEF GotBackoffice
  <2>2. call[c].fetches <= 3
    BY <1>1, <1>3, Counted DEF Spent
  <2> QED
    BY <1>1, <2>1, <2>2, ReopenStep
<1>4. CASE ~Refreshable(c) /\ ~(call[c].answer = "401" /\ call[c].stage # "last")
  <2>1. End(c, stored)
    BY <1>4 DEF GotBackoffice
  <2>2. stored \in Storage(Len(owner)) /\ TokenTaken(c)
    BY <1>1, <2>1, Storages DEF End, TokenTaken
  <2> QED
    BY <1>1, <2>1, <2>2, EndsQuietly DEF IInv, PageInv
<1> QED
  BY <1>2, <1>3, <1>4

LEMMA GotAdminRefreshStep ==
  ASSUME IInv, NEW c \in Calls, GotAdminRefresh(c)
  PROVE  IInv'
<1>1. /\ call[c].at = "answered" /\ call[c].kind = "admin" /\ call[c].asks = "refresh"
      /\ ServerStays /\ UNCHANGED <<authed, page, password>>
      /\ Gives(c) <=> call[c].answer = "ok"
  BY DEF GotAdminRefresh, Got, ServerStays, Gives
<1>2. call[c].fetches <= 2
  BY <1>1, Counted DEF Spent
<1>3. CASE call[c].answer = "ok"
  <2>1. Continue(c, [call[c] EXCEPT !.stage = "second"], "backoffice", setTokens(call[c].gets))
    BY <1>3 DEF GotAdminRefresh
  <2>2. call[c].fetches + 1 <= Spent(call[c].kind, "second", "backoffice")
    BY <1>1, <1>2, Counted DEF Spent
  <2>3. TokenTaken(c) /\ setTokens(call[c].gets) \in Storage(Len(owner))
    BY <1>1, <1>3, <2>1, Storages DEF Continue, TokenTaken
  <2> QED
    BY <1>1, <2>1, <2>2, <2>3, GoesOnLater
<1>4. CASE call[c].answer = "lost"
  <2>1. End(c, stored)
    BY <1>4 DEF GotAdminRefresh
  <2>2. stored \in Storage(Len(owner)) /\ TokenTaken(c)
    BY <1>1, <1>4, <2>1, Storages DEF End, TokenTaken
  <2> QED
    BY <1>1, <2>1, <2>2, EndsQuietly DEF IInv, PageInv
<1>5. CASE call[c].answer \notin {"ok", "lost"}
  <2>1. Reopen(c, clearAdminSession)
    BY <1>5 DEF GotAdminRefresh
  <2>2. call[c].fetches <= 3
    BY <1>2, Counted
  <2> QED
    BY <1>1, <1>5, <2>1, <2>2, ReopenStep
<1> QED
  BY <1>3, <1>4, <1>5

LEMMA GotReopenedStep ==
  ASSUME IInv, NEW c \in Calls, GotReopened(c)
  PROVE  IInv'
<1>1. /\ call[c].at = "answered" /\ call[c].kind = "admin" /\ call[c].asks = "session"
      /\ ServerStays /\ UNCHANGED <<authed, page, password>> /\ ~Gives(c)
  BY DEF GotReopened, Got, ServerStays, Gives
<1>2. CASE call[c].answer = "ok"
  <2> DEFINE s == [stored EXCEPT !.admin = call[c].gets]
  <2>1. Continue(c, call[c], "backoffice", s)
    BY <1>2 DEF GotReopened
  <2>2. s \in Storage(Len(owner)) /\ s.refresh = stored.refresh
    BY Storages
  <2>3. call[c] \in Record(Len(owner))
    BY DEF IInv, CallInv
  <2>4. TokenTaken(c)
    BY <1>1, <2>1, <2>2 DEF Continue, TokenTaken
  <2>5. call[c].fetches + 1 <= Spent(call[c].kind, call[c].stage, "backoffice")
    BY <1>1, Counted DEF Spent
  <2> HIDE DEF s
  <2> QED
    BY <1>1, <2>1, <2>2, <2>3, <2>4, <2>5, GoesOn
<1>3. CASE call[c].answer # "ok"
  <2>1. PICK s \in {stored, clearAdminSession} : End(c, s)
    BY <1>3 DEF GotReopened
  <2>2. s \in Storage(Len(owner)) /\ s.refresh \in {Null, stored.refresh}
    BY Storages
  <2>3. TokenTaken(c)
    BY <1>1, <2>1, <2>2 DEF End, TokenTaken
  <2> QED
    BY <1>1, <2>1, <2>2, <2>3, EndsQuietly DEF IInv, PageInv
<1> QED
  BY <1>2, <1>3

\* The page that asked shows the outcome, if it is still there.
LEMMA Shows ==
  ASSUME IInv, NEW c \in Calls, NEW what \in {"ready", "denied", "need-password"}, Show(c, what)
  PROVE  /\ page' \in {"closed", "checking", "need-password", "ready", "denied"}
         /\ page' = "checking" => page = "checking" /\ ~Pending(call[c])
<1>1. page \in {"closed", "checking", "need-password", "ready", "denied"}
  BY DEF IInv, PageInv
<1>2. CASE call[c].mounted
  BY <1>2 DEF Show
<1>3. CASE ~call[c].mounted
  BY <1>1, <1>3 DEF Show, Pending
<1> QED
  BY <1>2, <1>3

\* A call for an admin session ends, and shows how.
LEMMA OpeningEnds ==
  ASSUME IInv, NEW c \in Calls, call[c].at = "answered", ~Gives(c),
         NEW s \in Storage(Len(owner)), s.refresh = stored.refresh, End(c, s),
         NEW what \in {"ready", "denied", "need-password"}, Show(c, what),
         ServerStays, UNCHANGED <<authed, password>>
  PROVE  IInv'
<1>1. /\ page' \in {"closed", "checking", "need-password", "ready", "denied"}
      /\ page' = "checking" => page = "checking" /\ ~Pending(call[c])
  BY Shows
<1>2. TokenTaken(c) /\ authed' \in BOOLEAN /\ password' = password
  BY DEF End, TokenTaken, IInv, PageInv
<1> QED
  BY <1>1, <1>2, Ends, ZenonT(60)

LEMMA GotSessionStep ==
  ASSUME IInv, NEW c \in Calls, GotSession(c)
  PROVE  IInv'
<1>1. /\ call[c].at = "answered" /\ call[c].kind = "open" /\ call[c].asks = "session"
      /\ ServerStays /\ UNCHANGED <<authed, password>> /\ ~Gives(c)
  BY DEF GotSession, Got, ServerStays, Gives
<1>2. /\ stored \in Storage(Len(owner)) /\ clearAdminSession \in Storage(Len(owner))
      /\ clearAdminSession.refresh = stored.refresh
      /\ [stored EXCEPT !.admin = call[c].gets] \in Storage(Len(owner))
      /\ [stored EXCEPT !.admin = call[c].gets].refresh = stored.refresh
  BY Storages
<1>3. CASE call[c].answer = "ok"
  <2> DEFINE s == [stored EXCEPT !.admin = call[c].gets]
  <2>1. End(c, s) /\ Show(c, "ready")
    BY <1>3 DEF GotSession, Refreshable
  <2>2. s \in Storage(Len(owner)) /\ s.refresh = stored.refresh
    BY <1>2
  <2> HIDE DEF s
  <2> QED
    BY <1>1, <2>1, <2>2, OpeningEnds
<1>4. CASE Refreshable(c)
  <2>1. Continue(c, call[c], "refresh", stored) /\ page' = page
    BY <1>4 DEF GotSession, Refreshable
  <2> QED
    BY <1>1, <1>4, <2>1, RefreshesStep
<1>5. CASE call[c].answer = "lost"
  <2>1. End(c, stored) /\ Show(c, "need-password")
    BY <1>5 DEF GotSession, Refreshable
  <2> QED
    BY <1>1, <1>2, <2>1, OpeningEnds
<1>6. CASE call[c].answer # "ok" /\ ~Refreshable(c) /\ call[c].answer # "lost"
  <2>1. /\ End(c, clearAdminSession)
        /\ Show(c, IF call[c].answer = "403" THEN "denied" ELSE "need-password")
    BY <1>6 DEF GotSession
  <2>2. PICK what \in {"denied", "need-password"} : Show(c, what)
    BY <2>1
  <2> QED
    BY <1>1, <1>2, <2>1, <2>2, OpeningEnds
<1> QED
  BY <1>3, <1>4, <1>5, <1>6

LEMMA GotOpenRefreshStep ==
  ASSUME IInv, NEW c \in Calls, GotOpenRefresh(c)
  PROVE  IInv'
<1>1. /\ call[c].at = "answered" /\ call[c].kind = "open" /\ call[c].asks = "refresh"
      /\ ServerStays /\ UNCHANGED <<authed, password>>
      /\ Gives(c) <=> call[c].answer = "ok"
  BY DEF GotOpenRefresh, Got, ServerStays, Gives
<1>2. CASE call[c].answer = "ok"
  <2>1. /\ Continue(c, [call[c] EXCEPT !.stage = "last"], "session", setTokens(call[c].gets))
        /\ page' = page
    BY <1>2 DEF GotOpenRefresh
  <2>2. call[c].fetches + 1 <= Spent(call[c].kind, "last", "session")
    BY <1>1, Counted DEF Spent
  <2>3. TokenTaken(c) /\ setTokens(call[c].gets) \in Storage(Len(owner))
    BY <1>1, <1>2, <2>1, Storages DEF Continue, TokenTaken
  <2> QED
    BY <1>1, <2>1, <2>2, <2>3, GoesOnLater
<1>3. CASE call[c].answer # "ok"
  <2>1. PICK s \in {stored, clearAdminSession} : End(c, s)
    BY <1>3 DEF GotOpenRefresh
  <2>2. Show(c, "need-password")
    BY <1>3 DEF GotOpenRefresh
  <2>3. s \in Storage(Len(owner)) /\ s.refresh = stored.refresh
    BY Storages
  <2> QED
    BY <1>1, <1>3, <2>1, <2>2, <2>3, OpeningEnds
<1> QED
  BY <1>2, <1>3

LEMMA OrphanedStep ==
  ASSUME IInv, NEW c \in Calls, Orphaned(c)
  PROVE  IInv'
<1>1. /\ call[c].at = "answered" /\ call[c].kind = "orphan" /\ ~Gives(c)
      /\ End(c, stored) /\ ServerStays /\ UNCHANGED <<authed, page, password>>
  BY DEF Orphaned, Gives, End, ServerStays, browser
<1>2. stored \in Storage(Len(owner)) /\ TokenTaken(c)
  BY <1>1, Storages DEF End, TokenTaken
<1> QED
  BY <1>1, <1>2, EndsQuietly DEF IInv, PageInv

LEMMA ReceiveStep ==
  ASSUME IInv, NEW c \in Calls, Receive(c)
  PROVE  IInv'
BY GotPageStep, GotRefreshStep, GotLoginStep, GotBackofficeStep, GotAdminRefreshStep,
   GotReopenedStep, GotSessionStep, GotOpenRefreshStep, OrphanedStep DEF Receive

-----------------------------------------------------------------------------
(* The user's steps, and what goes wrong.                                  *)

\* Only the page or the login changes.
LEMMA PageOnly ==
  ASSUME IInv, ServerStays, UNCHANGED call, stored' \in Storage(Len(owner)),
         stored'.refresh \in {Null, stored.refresh}, authed' \in BOOLEAN,
         password' \in Passwords, page' \in {"closed", "need-password", "ready"}
  PROVE  IInv'
<1>1. /\ owner' = owner /\ chain' = chain /\ refresh' = refresh /\ lost' = lost
      /\ failures' = failures /\ Numbers' = Numbers
  BY DEF ServerStays, server, Numbers
<1>2. ServerInv' /\ PageInv'
  BY <1>1 DEF IInv, ServerInv, PageInv, ServerStays, server
<1>3. CallInv' /\ OneInv' /\ ShortInv' /\ CheckingIsPending'
  BY <1>1 DEF IInv, CallInv, OneInv, Rotating, ShortInv, CheckingIsPending
<1>4. TokenInv'
  <2>1. \A c \in Calls : (Gives(c)' <=> Gives(c)) /\ (Spends(c)' <=> Spends(c))
    BY DEF Gives, Spends
  <2>2. Null \notin refresh
    BY Held DEF IInv, ServerInv
  <2> QED
    BY <1>1, <2>1, <2>2 DEF IInv, TokenInv
<1> QED
  BY <1>2, <1>3, <1>4 DEF IInv

\* A call begins.
LEMMA Starts ==
  ASSUME IInv, NEW c \in Calls, NEW kind \in {"login", "member", "admin", "open"},
         NEW stage \in {"first", "last"},
         NEW what \in {"login", "page", "backoffice", "session"},
         NEW pw \in Passwords, NEW onPage \in BOOLEAN,
         Start(c, kind, stage, what, pw, onPage),
         kind = "login" => what = "login" /\ stage = "first", kind = "admin" => what # "session",
         ServerStays, stored' = stored, authed' = authed, password' \in Passwords,
         page' \in {"closed", "checking", "need-password", "ready", "denied"},
         page' = "checking" => (kind = "open" /\ onPage = TRUE) \/ page = "checking"
  PROVE  IInv'
<1> DEFINE b == Begin(kind, stage)  r == [b EXCEPT !.mounted = onPage]
           q == Send(r, what, stored, pw)
<1>1. call[c].kind = "none" /\ call' = [call EXCEPT ![c] = q]
  BY DEF Start
<1>2. Len(owner) \in Nat /\ stored \in Storage(Len(owner)) /\ authed' \in BOOLEAN
  BY Counts DEF IInv, PageInv
<1>3. b \in Record(Len(owner)) /\ b.kind = kind /\ b.stage = stage /\ b.fetches = 0
  BY <1>2 DEF Begin, Idle, Record, Passwords
<1> HIDE DEF b
<1>4. r \in Record(Len(owner)) /\ r.kind = kind /\ r.stage = stage /\ r.fetches = 0
  BY <1>3 DEF Record
<1>5. r.mounted = onPage
  BY <1>3 DEF Record
<1> HIDE DEF r
<1>6. q \in Record(Len(owner)) /\ IsSent(q, r, what, stored)
  BY <1>2, <1>4, SendEffect
<1> HIDE DEF q
<1>7. /\ q.kind = kind /\ q.stage = stage /\ q.fetches = 1 /\ q.at = "sent" /\ q.asks = what
      /\ q.answer = "none"
  BY <1>4, <1>6 DEF IsSent
<1>8. WellFormed(q) /\ Short(q)
  BY <1>7 DEF WellFormed, Short, Spent
<1>9. call[c].asks = "none"
  BY <1>1 DEF IInv, CallInv, WellFormed
<1>10. TokenTaken(c) /\ stored' \in Storage(Len(owner))
  BY <1>2, <1>9 DEF TokenTaken, Gives
<1>11. kind = "open" /\ onPage = TRUE => Pending(q)
  BY <1>5, <1>6, <1>7 DEF IsSent, Pending
<1>12. page' = "checking" => Pending(q) \/ (page = "checking" /\ ~Pending(call[c]))
  BY <1>1, <1>11 DEF Pending
<1>13. q.at \in {"idle", "sent"} /\ q.kind # "orphan" /\ q.asks # "refresh"
  BY <1>7
<1> QED
  BY <1>1, <1>2, <1>6, <1>8, <1>10, <1>12, <1>13, MoveOn, ZenonT(60)

LEMMA ActStep ==
  ASSUME IInv, NEW c \in Calls, Act(c)
  PROVE  IInv'
<1>1. /\ page \in {"closed", "checking", "need-password", "ready", "denied"}
      /\ password \in Passwords /\ "none" \in Passwords /\ FALSE \in BOOLEAN
      /\ TRUE \in BOOLEAN
  BY DEF IInv, PageInv, Passwords
<1>2. CASE SubmitLogin(c)
  <2>1. /\ Start(c, "login", "first", "login", "none", FALSE) /\ ServerStays
        /\ stored' = stored /\ authed' = authed /\ page' = page /\ password' = password
    BY <1>2 DEF SubmitLogin, ServerStays, browser
  <2> QED
    BY <1>1, <2>1, Starts
<1>3. ASSUME NEW stage \in {"first", "last"}, Request(c, stage)
      PROVE  IInv'
  <2>1. /\ Start(c, "member", stage, "page", "none", FALSE) /\ ServerStays
        /\ stored' = stored /\ authed' = authed /\ page' = page /\ password' = password
    BY <1>3 DEF Request, ServerStays, browser
  <2> QED
    BY <1>1, <2>1, Starts
<1>4. CASE Manage(c)
  <2>1. /\ Start(c, "admin", "first", "backoffice", "none", FALSE) /\ ServerStays
        /\ stored' = stored /\ authed' = authed /\ page' = page /\ password' = password
    BY <1>4 DEF Manage, ServerStays, browser
  <2> QED
    BY <1>1, <2>1, Starts
<1>5. ASSUME NEW pw \in Passwords, Ensure(c, pw), ServerStays, stored' = stored,
             authed' = authed, password' \in Passwords
      PROVE  IInv'
  <2>1. CASE Start(c, "open", "first", "session", pw, TRUE)
             /\ page' = IF page = "closed" THEN "checking" ELSE page
    BY <1>1, <1>5, <2>1, Starts
  <2>2. CASE page' \in {"ready", "need-password"} /\ UNCHANGED call
    <3>1. stored' \in Storage(Len(owner)) /\ authed' \in BOOLEAN
          /\ stored'.refresh \in {Null, stored.refresh}
      BY <1>5 DEF IInv, PageInv
    <3> QED
      BY <1>5, <2>2, <3>1, PageOnly
  <2> QED
    BY <1>5, <2>1, <2>2 DEF Ensure
<1>6. CASE OpenBackoffice(c)
  BY <1>1, <1>5, <1>6 DEF OpenBackoffice, ServerStays
<1>7. ASSUME NEW pw \in Passwords, SubmitPassword(c, pw)
      PROVE  IInv'
  BY <1>5, <1>7 DEF SubmitPassword, ServerStays
<1> QED
  BY <1>2, <1>3, <1>4, <1>6, <1>7 DEF Act

LEMMA LeaveStep ==
  ASSUME IInv, LeaveBackoffice
  PROVE  IInv'
<1>1. /\ call' = Unmounted /\ page' = "closed" /\ stored' = stored
      /\ owner' = owner /\ chain' = chain /\ refresh' = refresh /\ lost' = lost
      /\ access' = access /\ expired' = expired /\ admin' = admin
      /\ authed' = authed /\ password' = password /\ failures' = failures
  BY DEF LeaveBackoffice, server
<1>2. \A c \in Calls : call[c] \in Record(Len(owner)) /\ WellFormed(call[c]) /\ Short(call[c])
  BY DEF IInv, CallInv, ShortInv
<1>3. ASSUME NEW c \in Calls
      PROVE  /\ call'[c] \in Record(Len(owner)) /\ WellFormed(call'[c]) /\ Short(call'[c])
             /\ call'[c].kind = call[c].kind /\ call'[c].asks = call[c].asks
             /\ call'[c].at = call[c].at /\ call'[c].answer = call[c].answer
             /\ call'[c].gets = call[c].gets /\ call'[c].refresh = call[c].refresh
             /\ call'[c].access = call[c].access /\ call'[c].admin = call[c].admin
  <2> DEFINE r == call[c]  q == call'[c]
  <2>1. r \in Record(Len(owner)) /\ q = [r EXCEPT !.mounted = FALSE]
    BY <1>1, <1>2 DEF Unmounted
  <2>2. WellFormed(r) /\ Short(r)
    BY <1>2
  <2> HIDE DEF r, q
  <2>3. q \in Record(Len(owner))
    BY <2>1 DEF Record
  <2>4. q.kind = r.kind /\ q.asks = r.asks /\ q.at = r.at /\ q.answer = r.answer
    BY <2>1 DEF Record
  <2>5. q.gets = r.gets /\ q.refresh = r.refresh /\ q.access = r.access /\ q.admin = r.admin
    BY <2>1 DEF Record
  <2>6. q.stage = r.stage /\ q.fetches = r.fetches
    BY <2>1 DEF Record
  <2>7. WellFormed(q) /\ Short(q)
    BY <2>2, <2>4, <2>5, <2>6 DEF WellFormed, Short
  <2> QED
    BY <2>3, <2>4, <2>5, <2>7, Zenon DEF r, q
<1>4. CallInv' /\ ShortInv'
  <2>1. call' \in [Calls -> Record(Len(owner))]
    BY <1>1, <1>3 DEF Unmounted
  <2> QED
    BY <1>1, <1>3, <2>1 DEF CallInv, ShortInv
<1>5. ServerInv' /\ PageInv'
  BY <1>1 DEF IInv, ServerInv, PageInv, Numbers
<1>6. OneInv'
  <2>1. Rotating' = Rotating /\ \A c \in Rotating : call'[c].refresh = call[c].refresh
    BY <1>3 DEF Rotating
  <2> QED
    BY <1>1, <2>1 DEF IInv, OneInv
<1>7. TokenInv'
  <2>1. \A c \in Calls : (Gives(c)' <=> Gives(c)) /\ (Spends(c)' <=> Spends(c))
    BY <1>3 DEF Gives, Spends
  <2> QED
    BY <1>1, <1>3, <2>1 DEF IInv, TokenInv
<1>9. CheckingIsPending'
  BY <1>1 DEF CheckingIsPending
<1> QED
  BY <1>4, <1>5, <1>6, <1>7, <1>9 DEF IInv

LEMMA LogoutStep ==
  ASSUME IInv, Logout
  PROVE  IInv'
<1>1. /\ ServerStays /\ UNCHANGED call /\ stored' = LoggedOut /\ authed' \in BOOLEAN
      /\ password' = password /\ page' = "closed"
  BY DEF Logout, ServerStays
<1>2. LoggedOut \in Storage(Len(owner)) /\ LoggedOut.refresh = Null /\ password \in Passwords
  BY Storages DEF IInv, PageInv
<1> QED
  BY <1>1, <1>2, PageOnly

LEMMA LoseStep ==
  ASSUME IInv, NEW c \in Calls, Lose(c)
  PROVE  IInv'
<1>1. /\ call[c].at \in {"sent", "found", "rotated", "answered"}
      /\ lost' = lost \cup Unheard(c) /\ Answer(c, "lost", Null)
      /\ UNCHANGED <<server, browser>> /\ failures < MaxFailures /\ failures' = failures + 1
  BY DEF Lose
<1>2. Unheard(c) \subseteq Numbers
  BY Held DEF Unheard, IInv, CallInv, WellFormed
<1>3. Spends(c) => call[c].refresh \in lost'
  BY <1>1, NotSpent DEF Spends, Unheard
<1>4. lost \subseteq lost' /\ lost' \subseteq Numbers /\ failures' \in 0..MaxFailures
  BY <1>1, <1>2, SessionAssumption DEF IInv, ServerInv, PageInv
<1>5. PICK what \in {"ok", "401", "403", "500", "lost"} :
        what # "ok" /\ Answer(c, what, Null)
  BY <1>1
<1>6. UNCHANGED <<server, browser>>
  BY <1>1
<1> QED
  BY <1>3, <1>4, <1>5, <1>6, PlainAnswer, ZenonT(60)

LEMMA ReloadStep ==
  ASSUME IInv, Reload
  PROVE  IInv'
<1> DEFINE asking == {d \in Calls : call[d].asks = "refresh"}
<1>1. /\ owner' = owner /\ chain' = chain /\ refresh' = refresh /\ stored' = stored
      /\ access' = access /\ expired' = expired /\ admin' = admin
      /\ lost' = lost \cup {call[c].refresh : c \in asking}
      /\ page' = "closed" /\ password' = "none" /\ authed' \in BOOLEAN
      /\ failures < MaxFailures /\ failures' = failures + 1
  BY DEF Reload, server
<1>2. \A c \in Calls : call[c] \in Record(Len(owner)) /\ WellFormed(call[c]) /\ Short(call[c])
  BY DEF IInv, CallInv, ShortInv
<1>3. ASSUME NEW c \in Calls, call[c].kind = "none"
      PROVE  /\ call'[c] \in Record(Len(owner)) /\ WellFormed(call'[c]) /\ Short(call'[c])
             /\ call'[c].kind = "none" /\ call'[c].asks = "none" /\ call'[c].at = "idle"
             /\ call'[c].answer = "none"
  <2>1. call'[c] = Idle
    BY <1>3 DEF Reload
  <2> QED
    BY <2>1, IdleEffect, Counts DEF IInv
<1>4. ASSUME NEW c \in Calls, call[c].kind # "none"
      PROVE  /\ call'[c] \in Record(Len(owner)) /\ WellFormed(call'[c]) /\ Short(call'[c])
             /\ call'[c].kind = "orphan" /\ call'[c].asks = call[c].asks
             /\ call'[c].at = call[c].at /\ call'[c].answer = call[c].answer
             /\ call'[c].refresh = call[c].refresh
             /\ call'[c].access = call[c].access /\ call'[c].admin = call[c].admin
  <2> DEFINE r == call[c]  q == call'[c]
  <2>1. r \in Record(Len(owner)) /\ q = [r EXCEPT !.kind = "orphan", !.mounted = FALSE]
    BY <1>2, <1>4 DEF Reload
  <2>2. WellFormed(r) /\ Short(r) /\ r.kind # "none"
    BY <1>2, <1>4
  <2> HIDE DEF r, q
  <2>3. q \in Record(Len(owner))
    BY <2>1 DEF Record
  <2>4. q.kind = "orphan" /\ q.asks = r.asks /\ q.at = r.at /\ q.answer = r.answer
    BY <2>1 DEF Record
  <2>5. q.refresh = r.refresh /\ q.access = r.access /\ q.admin = r.admin
    BY <2>1 DEF Record
  <2>6. q.stage = r.stage /\ q.fetches = r.fetches
    BY <2>1 DEF Record
  <2>7. q.fetches <= 5
    BY <2>1, <2>2, <2>6 DEF Record, Short, Spent
  <2>8. WellFormed(q) /\ Short(q)
    BY <2>2, <2>4, <2>5, <2>7 DEF WellFormed, Short, Spent
  <2> QED
    BY <2>3, <2>4, <2>5, <2>8, Zenon DEF r, q
<1>5. CallInv' /\ ShortInv'
  <2>1. DOMAIN call' = Calls /\ call' = [c \in Calls |-> call'[c]]
    BY DEF Reload
  <2>2. \A c \in Calls : /\ call'[c] \in Record(Len(owner))
                         /\ WellFormed(call'[c]) /\ Short(call'[c])
    BY <1>3, <1>4
  <2> QED
    BY <1>1, <2>1, <2>2 DEF CallInv, ShortInv
<1>6. asking \subseteq Calls /\ \A d \in asking : call[d].refresh \in Numbers
  BY Held DEF IInv, CallInv, WellFormed
<1>7. ServerInv' /\ PageInv'
  <2>1. lost' \subseteq Numbers /\ Numbers' = Numbers
    BY <1>1, <1>6 DEF IInv, ServerInv, Numbers
  <2>2. failures' \in 0..MaxFailures /\ password' \in Passwords
    BY <1>1, SessionAssumption DEF IInv, PageInv, Passwords
  <2> QED
    BY <1>1, <2>1, <2>2 DEF IInv, ServerInv, PageInv
<1>8. \A c \in Calls : call[c].asks = "refresh" => call[c].kind # "none"
  BY <1>2 DEF WellFormed
<1>9. OneInv'
  <2>1. \A c \in Calls : call[c].at = "rotated" => call[c].asks = "refresh"
    BY <1>2 DEF WellFormed
  <2>2. Rotating' \subseteq Rotating /\ \A c \in Rotating' : call'[c].refresh = call[c].refresh
    BY <1>3, <1>4 DEF Rotating
  <2> QED
    BY <1>1, <2>2 DEF IInv, OneInv
<1>10. TokenInv'
  <2>1. \A c \in Calls : ~Gives(c)'
    BY <1>3, <1>4 DEF Gives
  <2>2. \A c \in Calls : Spends(c) => call[c].refresh \in lost'
    BY <1>1 DEF Spends
  <2>3. stored'.refresh \in {Null} \cup refresh' \cup lost'
    BY <1>1, <2>2 DEF IInv, TokenInv
  <2>4. \A c \in Calls :
          call'[c].kind = "orphan" /\ call'[c].asks = "refresh" => call'[c].refresh \in lost'
    <3>1. \A c \in Calls : call'[c].asks = "refresh" =>
            call[c].asks = "refresh" /\ call'[c].refresh = call[c].refresh
      BY <1>3, <1>4
    <3> QED
      BY <1>1, <3>1
  <2> QED
    BY <2>1, <2>3, <2>4 DEF TokenInv
<1>12. CheckingIsPending'
  BY <1>1 DEF CheckingIsPending
<1> QED
  BY <1>5, <1>7, <1>9, <1>10, <1>12 DEF IInv

LEMMA ExpireStep ==
  ASSUME IInv, NEW n \in Numbers, Expire(n)
  PROVE  IInv'
<1>1. /\ owner' = owner /\ chain' = chain /\ refresh' = refresh /\ stored' = stored
      /\ call' = call /\ lost' = lost /\ authed' = authed /\ password' = password
      /\ page' = page /\ failures' = failures /\ Numbers' = Numbers
  BY DEF Expire, browser, Numbers
<1>2. access' \subseteq access /\ admin' \subseteq admin /\ expired' \subseteq Numbers
  BY DEF Expire, IInv, ServerInv
<1>3. ServerInv'
  BY <1>1, <1>2 DEF IInv, ServerInv
<1>4. PageInv' /\ CallInv' /\ OneInv' /\ ShortInv' /\ CheckingIsPending'
  BY <1>1 DEF IInv, PageInv, CallInv, OneInv, Rotating, ShortInv, CheckingIsPending
<1>5. TokenInv'
  BY <1>1 DEF IInv, TokenInv, Gives, Spends
<1> QED
  BY <1>3, <1>4, <1>5 DEF IInv

-----------------------------------------------------------------------------
(* The invariant, and what follows from it.                                *)

LEMMA InitInv == SessionInit => IInv
<1> SUFFICES ASSUME SessionInit PROVE IInv
  OBVIOUS
<1>1. /\ owner = <<>> /\ chain = <<>> /\ Len(owner) = 0 /\ Len(chain) = 0 /\ Numbers = {}
      /\ access = {} /\ refresh = {} /\ expired = {} /\ admin = {} /\ lost = {}
      /\ stored = LoggedOut /\ authed = FALSE /\ password = "none" /\ page = "closed"
      /\ failures = 0
  BY DEF SessionInit, Numbers
<1>2. \A c \in Calls :
        /\ call[c] = Idle /\ Idle \in Record(0) /\ WellFormed(Idle) /\ Short(Idle)
        /\ Idle.kind = "none" /\ Idle.at = "idle" /\ Idle.asks = "none" /\ Idle.answer = "none"
  BY IdleEffect DEF SessionInit
<1>3. CallInv /\ ShortInv
  <2>1. call = [c \in Calls |-> Idle]
    BY DEF SessionInit
  <2> QED
    BY <1>1, <1>2, <2>1 DEF CallInv, ShortInv
<1>4. ServerInv
  BY <1>1 DEF ServerInv
<1>5. PageInv
  <2>1. LoggedOut \in Storage(Len(owner))
    BY DEF LoggedOut, Storage
  <2>2. stored \in Storage(Len(owner)) /\ failures \in 0..MaxFailures
    BY <1>1, <2>1, SessionAssumption
  <2>3. authed \in BOOLEAN
    BY <1>1
  <2>4. password \in Passwords
        /\ page \in {"closed", "checking", "need-password", "ready", "denied"}
    BY <1>1 DEF Passwords
  <2> QED
    BY <2>2, <2>3, <2>4 DEF PageInv
<1>6. OneInv /\ CheckingIsPending
  BY <1>1, <1>2 DEF OneInv, Rotating, CheckingIsPending
<1>7. TokenInv
  BY <1>1, <1>2 DEF TokenInv, Gives, LoggedOut
<1> QED
  BY <1>3, <1>4, <1>5, <1>6, <1>7 DEF IInv

LEMMA StepInv == IInv /\ [SessionNext]_sessionVars => IInv'
<1> SUFFICES ASSUME IInv, [SessionNext]_sessionVars PROVE IInv'
  OBVIOUS
<1>1. ASSUME NEW c \in Calls, Serve(c)
      PROVE  IInv'
  BY <1>1, PageStep, BackofficeStep, SessionStep, FindStep, DeleteStep, CreateStep, LoginStep
     DEF Serve
<1>2. CASE UNCHANGED sessionVars
  <2>1. UNCHANGED <<owner, chain, access, refresh, expired, admin, lost, stored, authed,
                    password, page, call, failures>>
    BY <1>2 DEF sessionVars, server, browser
  <2>2. ServerInv' /\ PageInv' /\ CallInv' /\ OneInv'
    BY <2>1 DEF IInv, ServerInv, PageInv, CallInv, OneInv, Rotating, Numbers
  <2>3. TokenInv' /\ ShortInv' /\ CheckingIsPending'
    BY <2>1 DEF IInv, TokenInv, Gives, Spends, Numbers, ShortInv, CheckingIsPending
  <2> QED
    BY <2>2, <2>3 DEF IInv
<1> QED
  BY <1>1, <1>2, ReceiveStep, ActStep, LoseStep, LeaveStep, LogoutStep, ReloadStep, ExpireStep
     DEF SessionNext

\* The inductive invariant holds in every behaviour of the login state and the page.
THEOREM SessionInvariant == SessionSpec => []IInv
<1>1. SessionInit => IInv
  BY InitInv
<1>2. IInv /\ [SessionNext]_sessionVars => IInv'
  BY StepInv
<1> QED
  BY <1>1, <1>2, PTL DEF SessionSpec

-----------------------------------------------------------------------------
(* Somebody who has logged out.  LoggedOutStaysOut is not inductive: what  *)
(* is stored next comes from the refreshes and admin sessions under way,   *)
(* so the tokens those are about belong to nobody who has left, either.    *)

\* None of a storage's tokens, and none of those call c is about, is of somebody gone.
Welcome(s) == \A n \in {s.access, s.refresh, s.admin} \ {Null} : owner[n] \notin left
NobodyReturns(c) == Returning(c) => \A n \in TokensOf(c) : owner[n] \notin left

OutInv ==
  /\ left \subseteq Users
  /\ Welcome(stored)
  /\ \A c \in Calls : NobodyReturns(c)

LEMMA StoredNumbers ==
  ASSUME IInv
  PROVE  /\ {stored.access, stored.refresh, stored.admin} \ {Null} \subseteq Numbers
         /\ \A c \in Calls : TokensOf(c) \subseteq Numbers
<1>1. stored \in Storage(Len(owner)) /\ ServerInv /\ CallInv
  BY DEF IInv, PageInv
<1>2. {stored.access, stored.refresh, stored.admin} \ {Null} \subseteq Numbers
  BY <1>1 DEF Storage, Numbers
<1> QED
  BY <1>1, <1>2, Held DEF TokensOf

\* A step that changes nothing of the others' calls, and takes no token from its owner.
LEMMA OutKept ==
  ASSUME IInv, OutInv, left' = left, \A n \in Numbers : owner'[n] = owner[n],
         Welcome(stored'),
         {stored'.access, stored'.refresh, stored'.admin} \ {Null} \subseteq Numbers,
         NEW c \in Calls,
         \A d \in Calls \ {c} : call'[d] = call[d],
         NobodyReturns(c)'
  PROVE  OutInv'
<1>1. Welcome(stored)'
  BY DEF Welcome
<1>2. ASSUME NEW d \in Calls \ {c}
      PROVE  NobodyReturns(d)'
  <2>1. Returning(d)' <=> Returning(d)
    BY DEF Returning
  <2>2. TokensOf(d)' = TokensOf(d) /\ TokensOf(d) \subseteq Numbers
    BY StoredNumbers DEF TokensOf
  <2>3. NobodyReturns(d)
    BY DEF OutInv
  <2> QED
    BY <2>1, <2>2, <2>3 DEF NobodyReturns
<1> QED
  BY <1>1, <1>2 DEF OutInv

\* The server answers: what it issues belongs to whom the request is about.
LEMMA OutAnswered ==
  ASSUME IInv, OutInv, NEW c \in Calls, NEW what \in {"ok", "401", "403", "500", "lost"},
         NEW n \in {Null} \cup Numbers', Answer(c, what, n),
         owner' \in Seq(Users), Len(owner) <= Len(owner'),
         \A m \in Numbers : owner'[m] = owner[m],
         n # Null /\ Returning(c) => owner'[n] \notin left,
         UNCHANGED browser
  PROVE  OutInv'
<1>1. /\ \A d \in Calls : Keeps(d)
      /\ call'[c].gets = n /\ \A d \in Calls \ {c} : call'[d] = call[d]
  <2>1. CallInv /\ ShortInv /\ Len(owner) \in Nat /\ Len(owner') \in Nat
        /\ n \in {Null} \cup 1..Len(owner')
    BY Counts DEF IInv, Numbers
  <2> QED
    BY <2>1, Answered
<1>2. stored' = stored /\ left' = left /\ Welcome(stored)
  BY DEF browser, OutInv
<1>3. NobodyReturns(c)'
  <2>1. Returning(c)' <=> Returning(c)
    BY <1>1 DEF Returning, Keeps
  <2>2. TokensOf(c)' \subseteq TokensOf(c) \cup ({n} \ {Null})
    BY <1>1 DEF TokensOf, Keeps
  <2>3. TokensOf(c) \subseteq Numbers
    BY StoredNumbers
  <2> QED
    BY <1>2, <2>1, <2>2, <2>3 DEF NobodyReturns, OutInv
<1> QED
  BY <1>1, <1>2, <1>3, OutKept, StoredNumbers

\* A call goes on to its next request, or ends, with s in the storage.
LEMMA OutGoesOn ==
  ASSUME IInv, OutInv, NEW c \in Calls, NEW r \in Record(Len(owner)),
         NEW what \in {"login", "page", "backoffice", "refresh", "session"},
         NEW s \in Storage(Len(owner)), Welcome(s), NEW pw \in Passwords,
         call' = [call EXCEPT ![c] = Send(r, what, s, pw)], stored' = s,
         UNCHANGED <<server, left>>
  PROVE  OutInv'
<1> DEFINE q == Send(r, what, s, pw)
<1>1. call \in [Calls -> Record(Len(owner))] /\ Len(owner) \in Nat
  BY Counts DEF IInv, CallInv
<1>2. q \in Record(Len(owner)) /\ IsSent(q, r, what, s)
  BY <1>1, SendEffect
<1> HIDE DEF q
<1>3. call'[c] = q /\ \A d \in Calls \ {c} : call'[d] = call[d]
  BY <1>1 DEF q
<1>4. {q.access, q.refresh, q.gets} \ {Null} \subseteq {s.access, s.refresh} \ {Null}
  BY <1>2 DEF IsSent
<1>5. NobodyReturns(c)'
  BY <1>3, <1>4 DEF NobodyReturns, TokensOf, Welcome, server
<1>6. owner' = owner /\ left' = left /\ Welcome(stored')
  BY DEF server
<1>7. {stored'.access, stored'.refresh, stored'.admin} \ {Null} \subseteq Numbers
  BY DEF Storage, Numbers
<1> QED
  BY <1>3, <1>5, <1>6, <1>7, OutKept

LEMMA OutEnds ==
  ASSUME IInv, OutInv, NEW c \in Calls, NEW s \in Storage(Len(owner)), Welcome(s),
         End(c, s), UNCHANGED <<server, left>>
  PROVE  OutInv'
<1>1. call \in [Calls -> Record(Len(owner))]
  BY DEF IInv, CallInv
<1>2. call'[c] = Idle /\ stored' = s /\ \A d \in Calls \ {c} : call'[d] = call[d]
  BY <1>1 DEF End
<1>3. NobodyReturns(c)'
  BY <1>2 DEF NobodyReturns, Returning, Idle
<1>4. {stored'.access, stored'.refresh, stored'.admin} \ {Null} \subseteq Numbers
  BY <1>2 DEF Storage, Numbers
<1>5. Welcome(stored') /\ left' = left /\ owner' = owner
  BY <1>2 DEF server
<1> QED
  BY <1>2, <1>3, <1>4, <1>5, OutKept

\* The storages a step may leave, when call c has been answered.
LEMMA WelcomeStorages ==
  ASSUME IInv, OutInv
  PROVE  /\ Welcome(stored) /\ Welcome(LoggedOut) /\ Welcome(clearAdminSession)
         /\ \A c \in Calls : Returning(c) =>
              /\ Welcome(setTokens(call[c].gets))
              /\ Welcome([stored EXCEPT !.admin = call[c].gets])
<1>1. stored \in Storage(Len(owner)) /\ Welcome(stored)
  BY DEF IInv, PageInv, OutInv
<1>2. Welcome(LoggedOut)
  BY DEF Welcome, LoggedOut
<1>3. Welcome(clearAdminSession)
  BY <1>1 DEF Welcome, clearAdminSession, Storage
<1>4. ASSUME NEW c \in Calls, Returning(c)
      PROVE  /\ Welcome(setTokens(call[c].gets))
             /\ Welcome([stored EXCEPT !.admin = call[c].gets])
  <2>1. call[c].gets # Null => owner[call[c].gets] \notin left
    BY <1>4 DEF OutInv, NobodyReturns, TokensOf
  <2>2. Welcome(setTokens(call[c].gets))
    BY <1>1, <2>1 DEF Welcome, setTokens, Storage
  <2>3. Welcome([stored EXCEPT !.admin = call[c].gets])
    BY <1>1, <2>1 DEF Welcome, Storage
  <2> QED
    BY <2>2, <2>3
<1> QED
  BY <1>1, <1>2, <1>3, <1>4

LEMMA OutServed ==
  ASSUME IInv, OutInv, NEW c \in Calls, Serve(c)
  PROVE  OutInv'
<1>1. /\ owner \in Seq(Users) /\ Len(owner) \in Nat /\ Fresh = Len(owner) + 1
      /\ Numbers = 1..Len(owner)
  BY Counts DEF IInv, ServerInv
<1>2. ASSUME UNCHANGED <<server, browser>>, NEW what \in {"ok", "401", "403", "500", "lost"},
             Answer(c, what, Null)
      PROVE  OutInv'
  BY <1>1, <1>2, OutAnswered DEF server
<1>3. ASSUME call[c].at \in {"sent", "found"},
             UNCHANGED <<owner, browser>>, NEW at \in {"found", "rotated"},
             call' = [call EXCEPT ![c].at = at]
      PROVE  OutInv'
  <2>1. call \in [Calls -> Record(Len(owner))]
    BY DEF IInv, CallInv
  <2>2. call[c] \in Record(Len(owner)) /\ call'[c] = [call[c] EXCEPT !.at = at]
        /\ \A d \in Calls \ {c} : call'[d] = call[d]
    BY <1>3, <2>1
  <2>3. /\ call'[c].kind = call[c].kind /\ call'[c].asks = call[c].asks
        /\ call'[c].access = call[c].access /\ call'[c].refresh = call[c].refresh
        /\ call'[c].gets = call[c].gets
    BY <2>2 DEF Record
  <2>4. NobodyReturns(c)'
    BY <1>3, <2>3 DEF NobodyReturns, TokensOf, Returning, OutInv, browser
  <2>5. stored' = stored /\ left' = left /\ owner' = owner /\ Welcome(stored)
    BY <1>3 DEF browser, OutInv
  <2> QED
    BY <2>2, <2>4, <2>5, OutKept, StoredNumbers
<1>4. ASSUME NEW u \in Users, NEW root \in 0..(Len(owner) + 1), UNCHANGED browser,
             owner' = Append(owner, u), chain' = Append(chain, root),
             Answer(c, "ok", Fresh), Returning(c) => u \notin left
      PROVE  OutInv'
  <2>1. /\ owner' \in Seq(Users) /\ Len(owner') = Len(owner) + 1 /\ owner'[Fresh] = u
        /\ \A m \in Numbers : owner'[m] = owner[m]
        /\ Fresh \in {Null} \cup Numbers'
    BY <1>1, <1>4, Appended DEF IInv
  <2> QED
    BY <1>1, <1>4, <2>1, OutAnswered
<1>5. CASE ServePage(c) \/ ServeBackoffice(c)
  BY <1>2, <1>5 DEF ServePage, ServeBackoffice, BackofficeAnswer
<1>6. CASE FindRefreshToken(c)
  BY <1>2, <1>3, <1>6 DEF FindRefreshToken, Asked, server
<1>7. CASE DeleteRefreshToken(c)
  <2>1. CASE call[c].refresh \in refresh
    BY <1>3, <1>7, <2>1 DEF DeleteRefreshToken
  <2>2. CASE call[c].refresh \notin refresh
    BY <1>2, <1>7, <2>2 DEF DeleteRefreshToken, server
  <2> QED
    BY <2>1, <2>2
<1>8. CASE CreateRefreshToken(c)
  <2> DEFINE n == call[c].refresh
  <2>1. c \in Rotating /\ call[c].asks = "refresh"
    BY <1>8 DEF CreateRefreshToken, IInv, CallInv, WellFormed, Rotating
  <2>2. n \in Numbers /\ n # Null
    BY <2>1, Held DEF IInv
  <2>3. owner[n] \in Users /\ chain[n] \in 0..(Len(owner) + 1)
    BY <1>1, <2>2 DEF IInv, ServerInv
  <2>4. Returning(c) => owner[n] \notin left
    BY <2>2 DEF OutInv, NobodyReturns, TokensOf
  <2> QED
    BY <1>4, <1>8, <2>3, <2>4 DEF CreateRefreshToken, issueTokens
<1>9. ASSUME NEW u \in Users, login(c, u)
      PROVE  OutInv'
  <2>1. ~Returning(c) /\ Fresh \in 0..(Len(owner) + 1)
    BY <1>1, <1>9 DEF login, Asked, Returning
  <2> QED
    BY <1>4, <1>9, <2>1 DEF login, issueTokens
<1>10. CASE issueAdminSession(c)
  <2>1. CASE SessionAnswer(c) # "ok"
    BY <1>2, <1>10, <2>1 DEF issueAdminSession, SessionAnswer, server
  <2>2. CASE SessionAnswer(c) = "ok"
    <3> DEFINE n == call[c].access
    <3>1. n \in Numbers
      BY <2>2 DEF SessionAnswer, Authentic, IInv, ServerInv
    <3>2. owner[n] \in Users /\ Null \in 0..(Len(owner) + 1) /\ n # Null
      BY <1>1, <3>1 DEF IInv, ServerInv, Null
    <3>3. Returning(c) => owner[n] \notin left
      BY <3>2 DEF OutInv, NobodyReturns, TokensOf
    <3> QED
      BY <1>4, <1>10, <2>2, <3>2, <3>3 DEF issueAdminSession
  <2> QED
    BY <2>1, <2>2
<1> QED
  BY <1>5, <1>6, <1>7, <1>8, <1>9, <1>10 DEF Serve

\* A call that asks for another page, refreshes, opens a session again, or ends.
LEMMA OutMoves ==
  ASSUME IInv, OutInv, NEW c \in Calls, NEW s \in Storage(Len(owner)), Welcome(s),
         UNCHANGED <<server, left, password>>,
         \/ End(c, s)
         \/ \E stage \in {"second", "last"}, what \in {"page", "backoffice", "session"} :
              Continue(c, [call[c] EXCEPT !.stage = stage], what, s)
         \/ \E what \in {"backoffice", "refresh"} : Continue(c, call[c], what, s)
  PROVE  OutInv'
<1>1. call[c] \in Record(Len(owner)) /\ password \in Passwords
  BY DEF IInv, CallInv, PageInv
<1>2. CASE End(c, s)
  BY <1>2, OutEnds
<1>3. ASSUME NEW stage \in {"second", "last"}, NEW what \in {"page", "backoffice", "session"},
             Continue(c, [call[c] EXCEPT !.stage = stage], what, s)
      PROVE  OutInv'
  <2>1. [call[c] EXCEPT !.stage = stage] \in Record(Len(owner))
    <3> DEFINE r == call[c]
    <3>1. r \in Record(Len(owner))
      BY <1>1
    <3> HIDE DEF r
    <3>2. [r EXCEPT !.stage = stage] \in Record(Len(owner))
      BY <3>1 DEF Record
    <3> QED
      BY <3>2 DEF r
  <2> QED
    BY <1>1, <1>3, <2>1, OutGoesOn DEF Continue
<1>4. ASSUME NEW what \in {"backoffice", "refresh"}, Continue(c, call[c], what, s)
      PROVE  OutInv'
  BY <1>1, <1>4, OutGoesOn DEF Continue
<1> QED
  BY <1>2, <1>3, <1>4

LEMMA OutReceived ==
  ASSUME IInv, OutInv, NEW c \in Calls, Receive(c)
  PROVE  OutInv'
<1> DEFINE paired == setTokens(call[c].gets)
           opened == [stored EXCEPT !.admin = call[c].gets]
<1>1. /\ stored \in Storage(Len(owner)) /\ LoggedOut \in Storage(Len(owner))
      /\ clearAdminSession \in Storage(Len(owner))
      /\ paired \in Storage(Len(owner)) /\ opened \in Storage(Len(owner))
  BY Storages
<1>2. /\ Welcome(stored) /\ Welcome(LoggedOut) /\ Welcome(clearAdminSession)
      /\ Returning(c) => Welcome(paired) /\ Welcome(opened)
  BY WelcomeStorages
<1> HIDE DEF paired, opened
<1>3. ASSUME Reopen(c, clearAdminSession), UNCHANGED <<server, left, password>>
      PROVE  OutInv'
  BY <1>1, <1>2, <1>3, OutMoves DEF Reopen
<1>4. CASE GotPage(c)
  BY <1>1, <1>2, <1>4, OutMoves DEF GotPage, Got
<1>5. CASE GotRefresh(c)
  <2>1. UNCHANGED <<server, left, password>> /\ Returning(c)
    BY <1>5 DEF GotRefresh, Got, Returning
  <2>2. \/ Continue(c, [call[c] EXCEPT !.stage = "last"], "page", paired)
        \/ End(c, stored) \/ End(c, LoggedOut)
    BY <1>5 DEF GotRefresh, paired
  <2> QED
    BY <1>1, <1>2, <2>1, <2>2, OutMoves
<1>6. CASE GotBackoffice(c)
  <2>1. UNCHANGED <<server, left, password>>
    BY <1>6 DEF GotBackoffice, Got
  <2>2. \/ Continue(c, call[c], "refresh", stored)
        \/ Reopen(c, clearAdminSession) \/ End(c, stored)
    BY <1>6 DEF GotBackoffice
  <2> QED
    BY <1>1, <1>2, <1>3, <2>1, <2>2, OutMoves
<1>7. CASE GotAdminRefresh(c)
  <2>1. UNCHANGED <<server, left, password>> /\ Returning(c)
    BY <1>7 DEF GotAdminRefresh, Got, Returning
  <2>2. \/ Continue(c, [call[c] EXCEPT !.stage = "second"], "backoffice", paired)
        \/ Reopen(c, clearAdminSession) \/ End(c, stored)
    BY <1>7 DEF GotAdminRefresh, paired
  <2> QED
    BY <1>1, <1>2, <1>3, <2>1, <2>2, OutMoves
<1>8. CASE GotReopened(c)
  <2>1. UNCHANGED <<server, left, password>> /\ Returning(c)
    BY <1>8 DEF GotReopened, Got, Returning
  <2>2. \/ Continue(c, call[c], "backoffice", opened)
        \/ End(c, stored) \/ End(c, clearAdminSession)
    BY <1>8 DEF GotReopened, opened
  <2> QED
    BY <1>1, <1>2, <2>1, <2>2, OutMoves
<1>9. CASE GotSession(c)
  <2>1. UNCHANGED <<server, left, password>> /\ Returning(c)
    BY <1>9 DEF GotSession, Got, Returning
  <2>2. \/ Continue(c, call[c], "refresh", stored) \/ End(c, opened)
        \/ End(c, stored) \/ End(c, clearAdminSession)
    BY <1>9 DEF GotSession, opened
  <2> QED
    BY <1>1, <1>2, <2>1, <2>2, OutMoves
<1>10. CASE GotOpenRefresh(c)
  <2>1. UNCHANGED <<server, left, password>> /\ Returning(c)
    BY <1>10 DEF GotOpenRefresh, Got, Returning
  <2>2. \/ Continue(c, [call[c] EXCEPT !.stage = "last"], "session", paired)
        \/ End(c, stored) \/ End(c, clearAdminSession)
    BY <1>10 DEF GotOpenRefresh, paired
  <2> QED
    BY <1>1, <1>2, <2>1, <2>2, OutMoves
<1>11. CASE Orphaned(c)
  <2>1. End(c, stored) /\ UNCHANGED <<server, left, password>>
    BY <1>11 DEF Orphaned, End, browser
  <2> QED
    BY <1>1, <1>2, <2>1, OutMoves
<1>12. CASE GotLogin(c)
  <2>1. UNCHANGED <<server, password>>
    BY <1>12 DEF GotLogin, Got
  <2>2. CASE call[c].answer # "ok"
    BY <1>1, <1>2, <1>12, <2>1, <2>2, OutMoves DEF GotLogin
  <2>3. CASE call[c].answer = "ok"
    <3>1. End(c, paired) /\ left' = left \ {owner[call[c].gets]} /\ owner' = owner
      <4>1. End(c, paired) /\ left' = left \ {owner[call[c].gets]}
        BY <1>12, <2>3 DEF GotLogin, paired
      <4> QED
        BY <2>1, <4>1 DEF server
    <3>2. /\ call'[c] = Idle /\ stored' = paired
          /\ \A d \in Calls \ {c} : call'[d] = call[d]
      BY <3>1 DEF End, IInv, CallInv
    <3>3. Welcome(stored)'
      <4>1. /\ paired.access = call[c].gets /\ paired.refresh = call[c].gets
            /\ paired.admin = stored.admin
        BY <1>1 DEF paired, setTokens, Storage
      <4>2. stored.admin # Null => owner[stored.admin] \notin left
        BY <1>2 DEF Welcome
      <4> QED
        BY <3>1, <3>2, <4>1, <4>2 DEF Welcome
    <3>4. ~Returning(c)' /\ \A d \in Calls \ {c} :
            (Returning(d)' <=> Returning(d)) /\ TokensOf(d)' = TokensOf(d)
      BY <3>2 DEF Returning, TokensOf, Idle
    <3>5. \A d \in Calls : NobodyReturns(d)'
      BY <3>1, <3>4 DEF NobodyReturns, OutInv
    <3> QED
      BY <3>1, <3>3, <3>5 DEF OutInv
  <2> QED
    BY <2>2, <2>3
<1> QED
  BY <1>4, <1>5, <1>6, <1>7, <1>8, <1>9, <1>10, <1>11, <1>12 DEF Receive

LEMMA OutStarts ==
  ASSUME IInv, OutInv, NEW c \in Calls, NEW kind \in {"login", "member", "admin", "open"},
         NEW stage \in {"first", "last"},
         NEW what \in {"login", "page", "backoffice", "session"},
         NEW pw \in Passwords, NEW onPage \in BOOLEAN,
         Start(c, kind, stage, what, pw, onPage),
         UNCHANGED <<server, left, stored>>
  PROVE  OutInv'
<1> DEFINE b == Begin(kind, stage)  r == [b EXCEPT !.mounted = onPage]
<1>1. Len(owner) \in Nat /\ stored \in Storage(Len(owner)) /\ Welcome(stored)
  BY Counts DEF IInv, PageInv, OutInv
<1>2. b \in Record(Len(owner))
  BY <1>1 DEF Begin, Idle, Record, Passwords
<1>3. call' = [call EXCEPT ![c] = Send(r, what, stored, pw)]
  BY DEF Start
<1> HIDE DEF b
<1>4. r \in Record(Len(owner))
  BY <1>2 DEF Record
<1> HIDE DEF r
<1> QED
  BY <1>1, <1>3, <1>4, OutGoesOn

LEMMA OutActed ==
  ASSUME IInv, OutInv, NEW c \in Calls, Act(c)
  PROVE  OutInv'
<1>1. "none" \in Passwords /\ password \in Passwords /\ TRUE \in BOOLEAN /\ FALSE \in BOOLEAN
  BY DEF IInv, PageInv, Passwords
<1>2. ASSUME UNCHANGED <<server, left, stored, call>>
      PROVE  OutInv'
  BY <1>2 DEF OutInv, Welcome, NobodyReturns, Returning, TokensOf, server
<1>3. ASSUME NEW pw \in Passwords, Ensure(c, pw), UNCHANGED <<server, left, stored>>
      PROVE  OutInv'
  BY <1>1, <1>2, <1>3, OutStarts DEF Ensure
<1>4. CASE SubmitLogin(c) \/ Manage(c)
  BY <1>1, <1>4, OutStarts DEF SubmitLogin, Manage, browser
<1>5. ASSUME NEW stage \in {"first", "last"}, Request(c, stage)
      PROVE  OutInv'
  BY <1>1, <1>5, OutStarts DEF Request, browser
<1>6. CASE OpenBackoffice(c)
  BY <1>1, <1>3, <1>6 DEF OpenBackoffice
<1>7. ASSUME NEW pw \in Passwords, SubmitPassword(c, pw)
      PROVE  OutInv'
  BY <1>3, <1>7 DEF SubmitPassword
<1> QED
  BY <1>4, <1>5, <1>6, <1>7 DEF Act

\* The one who logs out is gone only if no call is about a token of theirs.
LEMMA OutLogout ==
  ASSUME IInv, OutInv, Logout
  PROVE  OutInv'
<1>1. /\ stored' = LoggedOut /\ owner' = owner /\ call' = call
      /\ left' = left \cup ({owner[n] : n \in {stored.access} \ {Null}} \ UnderWay)
  BY DEF Logout, server
<1>2. left' \subseteq Users
  <2>1. {stored.access} \ {Null} \subseteq Numbers
    BY StoredNumbers
  <2>2. \A n \in Numbers : owner[n] \in Users
    BY DEF IInv, ServerInv, Numbers
  <2> QED
    BY <1>1, <2>1, <2>2 DEF OutInv
<1>3. Welcome(stored)'
  BY <1>1 DEF Welcome, LoggedOut
<1>4. ASSUME NEW c \in Calls
      PROVE  NobodyReturns(c)'
  <2>1. (Returning(c)' <=> Returning(c)) /\ TokensOf(c)' = TokensOf(c)
    BY <1>1 DEF Returning, TokensOf
  <2>2. Returning(c) => \A n \in TokensOf(c) : owner[n] \in UnderWay
    BY DEF UnderWay
  <2>3. Returning(c) => \A n \in TokensOf(c) : owner[n] \notin left
    BY DEF OutInv, NobodyReturns
  <2> QED
    BY <1>1, <2>1, <2>2, <2>3 DEF NobodyReturns
<1> QED
  BY <1>2, <1>3, <1>4 DEF OutInv

\* Leaving the page and reloading it leave the tokens alone.
LEMMA OutRelabelled ==
  ASSUME IInv, OutInv, UNCHANGED <<server, left, stored>>,
         \A c \in Calls : Returning(c)' => Returning(c) /\ TokensOf(c)' = TokensOf(c)
  PROVE  OutInv'
BY DEF OutInv, Welcome, NobodyReturns, server

LEMMA OutStep ==
  ASSUME IInv, OutInv, [SessionNext]_sessionVars
  PROVE  OutInv'
<1>1. \A c \in Calls : call[c] \in Record(Len(owner))
  BY DEF IInv, CallInv
<1>2. CASE LeaveBackoffice
  <2>1. ASSUME NEW c \in Calls
        PROVE  /\ call'[c].kind = call[c].kind /\ call'[c].asks = call[c].asks
               /\ call'[c].access = call[c].access /\ call'[c].refresh = call[c].refresh
               /\ call'[c].gets = call[c].gets
    <3> DEFINE r == call[c]
    <3>1. r \in Record(Len(owner)) /\ call'[c] = [r EXCEPT !.mounted = FALSE]
      BY <1>1, <1>2 DEF LeaveBackoffice, Unmounted
    <3> HIDE DEF r
    <3>2. /\ call'[c].kind = r.kind /\ call'[c].asks = r.asks
          /\ call'[c].access = r.access /\ call'[c].refresh = r.refresh
          /\ call'[c].gets = r.gets
      BY <3>1 DEF Record
    <3> QED
      BY <3>2 DEF r
  <2>2. UNCHANGED <<server, left, stored>>
    BY <1>2 DEF LeaveBackoffice
  <2> QED
    BY <2>1, <2>2, OutRelabelled DEF Returning, TokensOf
<1>3. CASE Reload
  <2>1. ASSUME NEW c \in Calls
        PROVE  ~Returning(c)'
    <3> DEFINE r == call[c]
    <3>1. r \in Record(Len(owner))
          /\ call'[c] = (IF r.kind = "none" THEN Idle
                         ELSE [r EXCEPT !.kind = "orphan", !.mounted = FALSE])
      BY <1>1, <1>3 DEF Reload
    <3> HIDE DEF r
    <3>2. call'[c].kind = "orphan" \/ call'[c] = Idle
      BY <3>1 DEF Record
    <3> QED
      BY <3>2 DEF Returning, Idle
  <2>2. UNCHANGED <<server, left, stored>>
    BY <1>3 DEF Reload
  <2> QED
    BY <2>1, <2>2, OutRelabelled
<1>4. ASSUME NEW c \in Calls, Lose(c)
      PROVE  OutInv'
  <2>1. Answer(c, "lost", Null) /\ UNCHANGED <<server, browser>>
    BY <1>4 DEF Lose
  <2>2. owner' = owner /\ owner \in Seq(Users) /\ Null \in {Null} \cup Numbers'
        /\ Len(owner) <= Len(owner')
    BY <2>1, Counts DEF server, IInv, ServerInv
  <2> QED
    BY <2>1, <2>2, OutAnswered
<1>5. ASSUME NEW n \in Numbers, Expire(n)
      PROVE  OutInv'
  BY <1>5 DEF Expire, browser, OutInv, Welcome, NobodyReturns, Returning, TokensOf
<1>6. CASE UNCHANGED sessionVars
  BY <1>6 DEF sessionVars, server, browser, OutInv, Welcome, NobodyReturns, Returning, TokensOf
<1> QED
  BY <1>2, <1>3, <1>4, <1>5, <1>6, OutServed, OutReceived, OutActed, OutLogout
     DEF SessionNext

\* Nothing of somebody who has logged out is stored again before they log in, unless a
\* refresh or an admin session of theirs was under way as they left (AuthContext.logout,
\* ApiClient.request, adminApi.req).
LEMMA OutInvariant == SessionSpec => []OutInv
<1>1. SessionInit => OutInv
  BY DEF SessionInit, OutInv, Welcome, LoggedOut, NobodyReturns
<1>2. IInv /\ OutInv /\ [SessionNext]_sessionVars => OutInv'
  BY OutStep
<1> QED
  BY <1>1, <1>2, SessionInvariant, PTL DEF SessionSpec

THEOREM SessionLoggedOut == SessionSpec => []LoggedOutStaysOut
<1>1. OutInv => LoggedOutStaysOut
  BY DEF OutInv, Welcome, LoggedOutStaysOut
<1> QED
  BY <1>1, OutInvariant, PTL

\* The types: every token in use was issued, for any users and any number of calls.
THEOREM SessionTypes == SessionSpec => []SessionTypeOK
<1>1. IInv /\ OutInv => SessionTypeOK
  BY DEF IInv, ServerInv, PageInv, CallInv, OutInv, SessionTypeOK, CallRecord, Record, Storage,
         Numbers
<1> QED
  BY <1>1, SessionInvariant, OutInvariant, PTL

\* However many calls try to exchange one refresh token together, a login keeps one row,
\* or one exchange between its delete and its create (AuthService.refresh).
THEOREM SessionOneToken == SessionSpec => []OneTokenPerLogin
<1>1. IInv => OneTokenPerLogin
  <2> SUFFICES ASSUME IInv, NEW root \in {chain[n] : n \in refresh}
               PROVE  Cardinality({n \in refresh : chain[n] = root})
                        + Cardinality({c \in Calls : /\ call[c].at = "rotated"
                                                     /\ chain[call[c].refresh] = root}) <= 1
    BY DEF OneTokenPerLogin
  <2> DEFINE rows == {n \in refresh : chain[n] = root}
             moving == {c \in Calls : call[c].at = "rotated" /\ chain[call[c].refresh] = root}
  <2>1. PICK m \in refresh : chain[m] = root
    OBVIOUS
  <2>2. rows = {m}
    BY <2>1 DEF IInv, OneInv
  <2>3. moving = {}
    BY <2>1 DEF IInv, OneInv, Rotating
  <2>4. Cardinality(rows) = 1 /\ Cardinality(moving) = 0
    <3> HIDE DEF rows, moving
    <3> QED
      BY <2>2, <2>3, FS_Singleton, FS_EmptySet
  <2>5. Cardinality(rows) + Cardinality(moving) <= 1
    <3> HIDE DEF rows, moving
    <3> QED
      BY <2>4
  <2> QED
    BY <2>5
<1> QED
  BY <1>1, SessionInvariant, PTL

\* Whichever client exchanged the token, and in whatever order the answers came, the
\* browser at rest holds one that still has its row, unless an answer was lost.
THEOREM SessionNeverSpent == SessionSpec => []NeverLeftWithSpentToken
<1>1. IInv => NeverLeftWithSpentToken
  <2> SUFFICES ASSUME IInv, \A c \in Calls : call[c].at = "idle"
               PROVE  stored.refresh \in {Null} \cup refresh \cup lost
    BY DEF NeverLeftWithSpentToken
  <2>1. \A c \in Calls : ~Spends(c)
    BY DEF IInv, CallInv, WellFormed, Spends
  <2> QED
    BY <2>1 DEF IInv, TokenInv
<1> QED
  BY <1>1, SessionInvariant, PTL

\* A call asks the server at most three times, or five in the backoffice.
THEOREM SessionCallsAreShort == SessionSpec => []CallsAreShort
<1>1. IInv => CallsAreShort
  <2> SUFFICES ASSUME IInv, NEW c \in Calls
               PROVE  call[c].fetches <= (IF call[c].kind \in {"admin", "orphan"} THEN 5 ELSE 3)
    BY DEF CallsAreShort
  <2>1. call[c].fetches \in Nat /\ call[c].kind \in {"none", "login", "member", "admin", "open", "orphan"}
    BY DEF IInv, CallInv, Record
  <2>2. call[c].fetches <= Spent(call[c].kind, call[c].stage, call[c].asks)
    BY Counted
  <2> QED
    BY <2>1, <2>2 DEF Spent
<1> QED
  BY <1>1, SessionInvariant, PTL

\* The page never says it is opening a session while no call is left that will end it.
THEOREM SessionPending == SessionSpec => []CheckingIsPending
<1>1. IInv => CheckingIsPending
  BY DEF IInv
<1> QED
  BY <1>1, SessionInvariant, PTL

=============================================================================

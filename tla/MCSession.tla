------------------------------- MODULE MCSession -------------------------------
(***************************************************************************)
(* One browser, two calls at a time, and the bound on the tokens issued    *)
(* before the user stops acting.                                           *)
(***************************************************************************)
EXTENDS Session, TLC

CONSTANTS
  MaxLogins,    \* bound: logins
  MaxExpiries,  \* bound: tokens that run out while somebody holds them
  MaxTokens     \* bound: the user acts only while fewer tokens have been issued

Logins == Cardinality({n \in Numbers : chain[n] = n})

\* Pairs and admin tokens issued that have run out: a pair once for its access token
\* and once for its refresh token.
Expiries ==
  Cardinality({n \in Numbers : chain[n] # Null /\ n \notin access})
    + Cardinality(expired)
    + Cardinality({n \in Numbers : chain[n] = Null /\ n \notin admin})

\* A token nobody holds any more is never shown to the server again: only the others
\* need to run out.
Held ==
  {stored.access, stored.refresh, stored.admin}
    \cup UNION {{call[c].access, call[c].refresh, call[c].admin, call[c].gets} : c \in Calls}

MCSymmetry == Permutations(Calls) \cup Permutations(Admins)

Within == Len(owner) < MaxTokens

MCAct(c) ==
  \/ /\ Within
     /\ \/ Logins < MaxLogins /\ SubmitLogin(c)
        \/ OpenBackoffice(c)
        \/ \E stage \in {"first", "last"} : Request(c, stage)
        \/ \E pw \in Passwords \ {"none"} : SubmitPassword(c, pw)
  \/ Len(owner) <= MaxTokens /\ Manage(c)

\* Past the bounds the model stops; the browser just waits for the user.
Quiet == (\A c \in Calls : call[c].at = "idle") /\ UNCHANGED sessionVars

MCSessionNext ==
  \/ \E c \in Calls : Serve(c) \/ Receive(c) \/ MCAct(c) \/ Lose(c)
  \/ LeaveBackoffice \/ Logout \/ Reload
  \/ \E n \in Numbers \cap Held : Expiries < MaxExpiries /\ Expire(n)
  \/ Quiet

MCSessionSpec == SessionInit /\ [][MCSessionNext]_sessionVars /\ SessionFairness

=============================================================================

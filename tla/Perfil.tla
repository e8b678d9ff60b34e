--------------------------------- MODULE Perfil ---------------------------------
(***************************************************************************)
(* The member's profile: the screen, and what it changes of the member's   *)
(* own row.  The levels and achievements it lists are Gamification's.      *)
(***************************************************************************)
EXTENDS Client

CONSTANTS
  Avatars,     \* AVATAR_KEYS, as far as they occur
  Nicknames    \* nicknames of a length the screen accepts

Members == [avatar : Options(Avatars), nickname : Options(Nicknames)]

\* PerfilScreen as it mounts: me and gam are asked for together.
PerfilScreen ==
  [at |-> "perfil", me |-> {}, gam |-> FALSE, detail |-> FALSE, picker |-> FALSE,
   editing |-> FALSE, saving |-> FALSE]

\* The member's row and the profile, in the answers that carry them; the achievements are
\* read in a request of their own.
GotMe(c) ==
  /\ screen.at = "perfil" /\ Done(c)
  /\ \/ Answered(c, "me") /\ screen' = [screen EXCEPT !.me = {call[c].data.member}]
     \/ Failed(c, "me") /\ UNCHANGED screen
  /\ UNCHANGED <<account, browser>>

ServeGamification(c) ==
  /\ Sent(c, "gamification") /\ Reply(c, "ok", {})
  /\ UNCHANGED <<screen, account, browser>>

\* Neither request has a catch: until both are answered the screen goes on loading.
GotGamification(c) ==
  /\ screen.at = "perfil" /\ Done(c)
  /\ \/ Answered(c, "gamification") /\ screen' = [screen EXCEPT !.gam = TRUE]
     \/ Failed(c, "gamification") /\ UNCHANGED screen
  /\ UNCHANGED <<account, browser>>

Loaded == Reachable("perfil") /\ screen.me # {} /\ screen.gam

setDetailOpen(open) ==
  /\ Loaded /\ screen' = [screen EXCEPT !.detail = open]
  /\ UNCHANGED <<call, account, browser>>

setAvatarPickerOpen ==
  /\ Loaded /\ screen.detail /\ screen' = [screen EXCEPT !.picker = ~@]
  /\ UNCHANGED <<call, account, browser>>

setEditingNickname ==
  /\ Loaded /\ screen.detail /\ screen' = [screen EXCEPT !.editing = ~@]
  /\ UNCHANGED <<call, account, browser>>

\* The picker closes at once; the avatar that is shown already is not saved.
pickAvatar(a) ==
  /\ Loaded /\ screen.detail /\ screen.picker /\ ~screen.saving
  /\ LET same == \A m \in screen.me : a \in m.avatar IN
     /\ screen' = [screen EXCEPT !.picker = FALSE, !.saving = ~same]
     /\ IF same THEN UNCHANGED call ELSE Ask("profile", [avatar |-> {a}, nickname |-> {}])
  /\ UNCHANGED <<account, browser>>

saveNickname(n) ==
  /\ Loaded /\ screen.detail /\ screen.editing /\ ~screen.saving
  /\ screen' = [screen EXCEPT !.saving = TRUE]
  /\ Ask("profile", [avatar |-> {}, nickname |-> {n}])
  /\ UNCHANGED <<account, browser>>

\* updateProfile: the fields that are given.
updateProfile(c) ==
  /\ Sent(c, "profile")
  /\ LET patch == call[c].about IN
     member' = [avatar |-> IF patch.avatar # {} THEN patch.avatar ELSE member.avatar,
                nickname |-> IF patch.nickname # {} THEN patch.nickname ELSE member.nickname]
  /\ Reply(c, "ok", member')
  /\ UNCHANGED <<screen, plan, bought, balance, tickets, changes, browser>>

\* saveProfile, and saveNickname after it, which closes the editor even if nothing was
\* saved.
Saved(c) ==
  /\ screen.at = "perfil" /\ Done(c)
  /\ Answered(c, "profile") \/ Failed(c, "profile")
  /\ screen' = [screen EXCEPT
                  !.me = IF Answered(c, "profile") THEN {call[c].data} ELSE @,
                  !.saving = FALSE,
                  !.editing = @ /\ call[c].about.nickname = {}]
  /\ UNCHANGED <<account, browser>>

PerfilNext ==
  \/ \E c \in Calls : \/ GotMe(c) \/ ServeGamification(c) \/ GotGamification(c)
                      \/ updateProfile(c) \/ Saved(c)
  \/ \E open \in BOOLEAN : setDetailOpen(open)
  \/ setAvatarPickerOpen \/ setEditingNickname
  \/ \E a \in Avatars : pickAvatar(a)
  \/ \E n \in Nicknames : saveNickname(n)

=============================================================================

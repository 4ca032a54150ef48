--------------------------- MODULE ConsoleProofs ---------------------------
(***************************************************************************)
(* Theorems about Console, for any venues, accounts, rows and fields: its  *)
(* variables keep their types, the cache is the session's, what a page     *)
(* offers is what the server allows, and the settings page brings a value  *)
(* that has been replaced back only in a column that was typed in.         *)
(*                                                                         *)
(* They rest on OneSession: as long as no sign-in overtakes an open        *)
(* GET /auth/me there is one token at work, or none, and the profile, the  *)
(* answers and the calls in flight are all of it.                          *)
(***************************************************************************)
EXTENDS Console, TLAPS

-----------------------------------------------------------------------------
(* Types *)

\* A page that follows its account's venue turns to a settings page of it.
LEMMA FollowLemma ==
  ASSUME ConsoleTypeOK, NEW p \in Token, Follow(p)
  PROVE  /\ shown' \in Rows \cup {None}
         /\ asking' \in {asking, NotAsking}
         /\ shown' = shown \/ (shown \in Settings /\ shown' \in Settings /\ asking' = NotAsking)
         /\ shown \in Settings /\ Home[p.who] # None => VenueOf[shown'] = Home[p.who]
<1>1. p.who \in Accounts /\ Home[p.who] \in Venues \cup {None}
  BY ConsoleAssumption DEF Token
<1>2. CASE shown \in Settings /\ Home[p.who] \notin {None, VenueOf[shown]}
  <2>1. \E r \in Settings : VenueOf[r] = Home[p.who]
    BY <1>1, <1>2, ConsoleAssumption
  <2>2. shown' = CHOOSE r \in Settings : VenueOf[r] = Home[p.who]
    BY <1>2 DEF Follow
  <2>3. shown' \in Settings /\ VenueOf[shown'] = Home[p.who]
    BY <2>1, <2>2
  <2>4. shown' # shown
    BY <1>2, <2>3
  <2>5. QED
    BY <1>2, <2>3, <2>4, ConsoleAssumption DEF Follow
<1>3. CASE ~(shown \in Settings /\ Home[p.who] \notin {None, VenueOf[shown]})
  <2>1. shown' = shown /\ asking' = asking
    BY <1>3 DEF Follow
  <2>2. QED
    BY <1>3, <2>1 DEF ConsoleTypeOK
<1>4. QED
  BY <1>2, <1>3

\* The empty draft, cache and calls have their types.
LEMMA EmptyTypes ==
  /\ Untouched \in [Fields -> Value \cup {None}]
  /\ Empty \in [Rows -> [by: Token, view: [Fields -> Value]] \cup {None}]
  /\ NotAsking \in [open: BOOLEAN, token: Token \cup {None}]
  /\ NotSaving \in [row: Rows \cup {None}, token: Token \cup {None}, own: BOOLEAN,
                    answer: {"none", "waiting", "saved", "forbidden", "refused"},
                    body: [Fields -> Value \cup {None}]]
  BY DEF Untouched, Empty, NotAsking, NotSaving

LEMMA SavingTypes ==
  ASSUME ConsoleTypeOK
  PROVE  /\ [saving EXCEPT !.own = FALSE] \in
              [row: Rows \cup {None}, token: Token \cup {None}, own: BOOLEAN,
               answer: {"none", "waiting", "saved", "forbidden", "refused"},
               body: [Fields -> Value \cup {None}]]
         /\ \A how \in {"saved", "forbidden", "refused"} : Answered(how) \in
              [row: Rows \cup {None}, token: Token \cup {None}, own: BOOLEAN,
               answer: {"none", "waiting", "saved", "forbidden", "refused"},
               body: [Fields -> Value \cup {None}]]
  BY EmptyTypes DEF ConsoleTypeOK, Answered, NotSaving

\* Clearing the session leaves every type.
LEMMA ClearTypes ==
  ASSUME ConsoleTypeOK, Clear, UNCHANGED serverVars,
         boot' \in Token \cup {None}, entry' \in Token \cup {None},
         {loading', crossed'} \subseteq BOOLEAN
  PROVE  ConsoleTypeOK'
  BY EmptyTypes, SavingTypes DEF Clear, Forget, LeavePage, ConsoleTypeOK, serverVars

\* A patched row is a row.
LEMMA PatchedType ==
  ASSUME ConsoleTypeOK, NEW r \in Rows, NEW body \in [Fields -> Value \cup {None}]
  PROVE  /\ Patched(r, body) \in [Rows -> [Fields -> Value]]
         /\ \A s \in Rows \ {r} : Patched(r, body)[s] = row[s]
         /\ \A f \in Fields : Patched(r, body)[r][f] = IF body[f] = None THEN row[r][f] ELSE body[f]
<1>1. row \in [Rows -> [Fields -> Value]]
  BY DEF ConsoleTypeOK
<1>2. QED
  BY <1>1 DEF Patched

LEMMA SessionTypes == ConsoleTypeOK /\ SessionStep => ConsoleTypeOK'
<1> SUFFICES ASSUME ConsoleTypeOK, SessionStep PROVE ConsoleTypeOK'
  OBVIOUS
<1> USE EmptyTypes DEF serverVars, pageVars
<1>1. CASE Load
  BY <1>1 DEF Load, Forget, ConsoleTypeOK
<1>2. CASE HearBoot
  <2>1. CASE Clear
    BY <1>2, <2>1, ClearTypes DEF HearBoot, ConsoleTypeOK
  <2>2. CASE Follow(boot) /\ profile' = ProfileOf(boot) /\ UNCHANGED <<stored, expired, draft, cache, saving>>
    <3>1. boot \in Token
      BY <1>2 DEF HearBoot, ConsoleTypeOK
    <3>2. shown' \in Rows \cup {None} /\ asking' \in [open: BOOLEAN, token: Token \cup {None}]
      BY <2>2, <3>1, FollowLemma DEF ConsoleTypeOK
    <3>3. profile' \in Token
      BY <2>2, <3>1 DEF ProfileOf
    <3>4. QED
      BY <1>2, <2>2, <3>2, <3>3 DEF HearBoot, ConsoleTypeOK
  <2>3. QED
    BY <1>2, <2>1, <2>2 DEF HearBoot
<1>3. CASE HearEntry
  <2>1. CASE Clear /\ UNCHANGED loading
    BY <1>3, <2>1, ClearTypes DEF HearEntry, ConsoleTypeOK
  <2>2. CASE /\ Follow(entry) /\ profile' = ProfileOf(entry) /\ loading' = FALSE
             /\ UNCHANGED <<stored, expired, draft, cache, saving>>
    <3>1. entry \in Token
      BY <1>3 DEF HearEntry, ConsoleTypeOK
    <3>2. shown' \in Rows \cup {None} /\ asking' \in [open: BOOLEAN, token: Token \cup {None}]
      BY <2>2, <3>1, FollowLemma DEF ConsoleTypeOK
    <3>3. profile' \in Token
      BY <2>2, <3>1 DEF ProfileOf
    <3>4. QED
      BY <1>3, <2>2, <3>2, <3>3 DEF HearEntry, ConsoleTypeOK
  <2>3. CASE UNCHANGED <<stored, expired, profile, loading, pageVars>>
    BY <1>3, <2>3 DEF HearEntry, ConsoleTypeOK
  <2>4. QED
    BY <1>3, <2>1, <2>2, <2>3 DEF HearEntry
<1>4. CASE SignOut
  BY <1>4, ClearTypes DEF SignOut, ConsoleTypeOK
<1>5. CASE ChangePassword
  <2>1. CASE Clear
    BY <1>5, <2>1, ClearTypes DEF ChangePassword, ConsoleTypeOK
  <2>2. CASE UNCHANGED <<stored, expired, profile, pageVars>>
    BY <1>5, <2>2 DEF ChangePassword, ConsoleTypeOK
  <2>3. QED
    BY <1>5, <2>1, <2>2 DEF ChangePassword
<1>6. CASE Expire
  BY <1>6 DEF Expire, ConsoleTypeOK
<1>7. ASSUME NEW u \in Accounts, SignIn(u) PROVE ConsoleTypeOK'
  <2>1. stored' \in Token /\ entry' = stored'
    BY <1>7 DEF SignIn, MaySignIn, Token
  <2>2. crossed' \in BOOLEAN
    BY <1>7 DEF SignIn, ConsoleTypeOK
  <2>3. QED
    BY <1>7, <2>1, <2>2 DEF SignIn, ConsoleTypeOK
<1>8. QED
  BY <1>1, <1>2, <1>3, <1>4, <1>5, <1>6, <1>7 DEF SessionStep

LEMMA PageTypes == ConsoleTypeOK /\ PageStep => ConsoleTypeOK'
<1> SUFFICES ASSUME ConsoleTypeOK, PageStep PROVE ConsoleTypeOK'
  OBVIOUS
<1> USE EmptyTypes, SavingTypes DEF serverVars, sessionVars, Value
<1>1. ASSUME NEW r \in Rows, OpenPage(r) \/ SwitchVenue(r) PROVE ConsoleTypeOK'
  <2>1. /\ shown' = r /\ asking' = NotAsking /\ draft' \in {draft, Untouched}
        /\ saving' \in {saving, [saving EXCEPT !.own = FALSE]}
        /\ UNCHANGED <<serverVars, sessionVars, cache>>
    BY <1>1 DEF OpenPage, SwitchVenue
  <2>2. /\ draft' \in [Fields -> Value \cup {None}]
        /\ saving' \in [row: Rows \cup {None}, token: Token \cup {None}, own: BOOLEAN,
                        answer: {"none", "waiting", "saved", "forbidden", "refused"},
                        body: [Fields -> Value \cup {None}]]
    BY <2>1 DEF ConsoleTypeOK
  <2>3. QED
    BY <2>1, <2>2 DEF ConsoleTypeOK
<1>2. Sent \in [open: BOOLEAN, token: Token \cup {None}]
  BY DEF Sent, ConsoleTypeOK
<1>3. CASE Ask
  BY <1>2, <1>3 DEF Ask, ConsoleTypeOK
<1>4. CASE HearGet
  <2>1. CASE Clear
    BY <1>4, <2>1, ClearTypes DEF HearGet, ConsoleTypeOK
  <2>2. CASE /\ asking' = NotAsking
             /\ UNCHANGED <<stored, expired, profile, shown, draft, cache, saving>>
    BY <1>4, <2>2 DEF HearGet, ConsoleTypeOK
  <2>3. CASE /\ Verifies(asking.token)
             /\ cache' = [cache EXCEPT ![shown] = [by |-> asking.token, view |-> row[shown]]]
             /\ asking' = NotAsking
             /\ UNCHANGED <<stored, expired, profile, shown, draft, saving>>
    <3>1. asking.token \in Token
      BY <2>3 DEF Verifies, ConsoleTypeOK
    <3>2. CASE shown \in Rows
      <4>1. [by |-> asking.token, view |-> row[shown]] \in [by: Token, view: [Fields -> Value]]
        BY <3>1, <3>2 DEF ConsoleTypeOK
      <4>2. cache' \in [Rows -> [by: Token, view: [Fields -> Value]] \cup {None}]
        BY <2>3, <4>1 DEF ConsoleTypeOK
      <4>3. QED
        BY <1>4, <2>3, <4>2 DEF HearGet, ConsoleTypeOK
    <3>3. CASE shown \notin Rows
      <4>1. cache' = cache
        BY <2>3, <3>3 DEF ConsoleTypeOK
      <4>2. QED
        BY <1>4, <2>3, <4>1 DEF HearGet, ConsoleTypeOK
    <3>4. QED
      BY <3>2, <3>3
  <2>4. QED
    BY <1>4, <2>1, <2>2, <2>3 DEF HearGet
<1>5. CASE OpenDialog
  <2>1. cache[shown].view \in [Fields -> Value \cup {None}]
    BY <1>5 DEF OpenDialog, Editable, ConsoleTypeOK
  <2>2. QED
    BY <1>5, <2>1 DEF OpenDialog, ConsoleTypeOK
<1>6. CASE CloseDialog
  BY <1>6 DEF CloseDialog, ConsoleTypeOK
<1>7. ASSUME NEW f \in Here, TypeSetting(f) \/ TypeInDialog(f) PROVE ConsoleTypeOK'
  <2>1. CASE TypeSetting(f)
    <3>1. cache[shown].view \in [Fields -> Value]
      BY <2>1 DEF TypeSetting, Editable, ConsoleTypeOK
    <3>2. draft' \in [Fields -> Value \cup {None}]
      BY <2>1, <3>1 DEF TypeSetting, ConsoleTypeOK
    <3>3. QED
      BY <2>1, <3>2 DEF TypeSetting, ConsoleTypeOK
  <2>2. CASE TypeInDialog(f)
    BY <2>2, ConsoleAssumption DEF TypeInDialog, ConsoleTypeOK
  <2>3. QED
    BY <1>7, <2>1, <2>2
<1>8. ASSUME NEW f \in Here, Toggle(f) PROVE ConsoleTypeOK'
  <2>1. [Untouched EXCEPT ![f] = "mine"] \in [Fields -> Value \cup {None}]
    BY ConsoleAssumption
  <2>2. QED
    BY <1>8, <2>1 DEF Toggle, ConsoleTypeOK
<1>9. CASE Save
  BY <1>9 DEF Save, Body, ConsoleTypeOK
<1>10. CASE ServeSave
  <2>1. CASE row' = row
    BY <1>10, <2>1 DEF ServeSave, ConsoleTypeOK
  <2>2. CASE row' = Patched(saving.row, saving.body) /\ saving' = Answered("saved")
    <3>1. saving.body \in [Fields -> Value \cup {None}] /\ saving.row \in Rows \cup {None}
      BY DEF ConsoleTypeOK
    <3>2. row' \in [Rows -> [Fields -> Value]]
      <4>1. CASE saving.row \in Rows
        BY <2>2, <3>1, <4>1, PatchedType
      <4>2. CASE saving.row \notin Rows
        BY <2>2, <4>2 DEF Patched, ConsoleTypeOK
      <4>3. QED
        BY <4>1, <4>2
    <3>3. QED
      BY <1>10, <2>2, <3>2 DEF ServeSave, ConsoleTypeOK
  <2>3. QED
    BY <1>10, <2>1, <2>2 DEF ServeSave
<1>11. CASE HearSave
  <2>1. asking' \in [open: BOOLEAN, token: Token \cup {None}]
    BY <1>2, <1>11 DEF HearSave, Forget, ConsoleTypeOK
  <2>2. saving' = NotSaving /\ draft' \in {draft, Untouched} /\ UNCHANGED <<serverVars, loading, boot, entry, crossed>>
    BY <1>11 DEF HearSave
  <2>3. /\ stored' \in {stored, None} /\ expired' \in BOOLEAN /\ profile' \in {profile, None}
        /\ shown' \in {shown, None} /\ cache' \in {cache, Empty}
    BY <1>11 DEF HearSave, Forget, ConsoleTypeOK
  <2>4. QED
    BY <2>1, <2>2, <2>3 DEF ConsoleTypeOK
<1>12. QED
  BY <1>1, <1>3, <1>4, <1>5, <1>6, <1>7, <1>8, <1>9, <1>10, <1>11 DEF PageStep

LEMMA ElsewhereTypes == ConsoleTypeOK /\ ElsewhereStep => ConsoleTypeOK'
<1> SUFFICES ASSUME ConsoleTypeOK, ElsewhereStep PROVE ConsoleTypeOK'
  OBVIOUS
<1>1. ASSUME NEW r \in Rows, NEW f \in Fields, EditElsewhere(r, f) PROVE ConsoleTypeOK'
  <2>1. [Untouched EXCEPT ![f] = "theirs"] \in [Fields -> Value \cup {None}]
    BY DEF Untouched, Value
  <2>2. row' \in [Rows -> [Fields -> Value]]
    BY <1>1, <2>1, PatchedType DEF EditElsewhere
  <2>3. QED
    BY <1>1, <2>2 DEF EditElsewhere, ConsoleTypeOK, sessionVars, pageVars
<1>2. ASSUME NEW u \in Accounts, NEW role \in Offered, Invite(u, role) \/ UpdateStaff(u, role)
      PROVE  ConsoleTypeOK'
  BY <1>2 DEF Invite, UpdateStaff, WithRole, Offered, Roles, ConsoleTypeOK, sessionVars, pageVars
<1>3. \A at \in Elsewhere : at[1] \in Rows /\ at[2] \in Fields
  BY ConsoleAssumption
<1>4. QED
  BY <1>1, <1>2, <1>3 DEF ElsewhereStep

LEMMA ConsoleTypeStep == ConsoleTypeOK /\ [ConsoleNext]_vars => ConsoleTypeOK'
<1>1. ConsoleTypeOK /\ UNCHANGED vars => ConsoleTypeOK'
  BY DEF ConsoleTypeOK, vars, serverVars, sessionVars, pageVars
<1>2. QED
  BY <1>1, SessionTypes, PageTypes, ElsewhereTypes DEF ConsoleNext

LEMMA ConsoleTypeInit == ConsoleInit => ConsoleTypeOK
<1>1. Fresh \in [Fields -> Value]
  BY DEF Fresh, Value
<1>2. ASSUME ConsoleInit
      PROVE  /\ account \in [Accounts -> Roles \cup {"off", None}]
             /\ row \in [Rows -> [Fields -> Value]]
  BY <1>1, <1>2 DEF ConsoleInit, Roles
<1>3. QED
  BY <1>2, EmptyTypes DEF ConsoleInit, ConsoleTypeOK

\* Every variable keeps its type, for any constants.
THEOREM ConsoleTypeCorrect == ConsoleSpec => []ConsoleTypeOK
<1>1. QED
  BY ConsoleTypeInit, ConsoleTypeStep, PTL DEF ConsoleSpec

-----------------------------------------------------------------------------
(* Roles *)

\* A step other than a sign-in makes no token.
LEMMA TokensMove ==
  ASSUME [ConsoleNext]_vars, \A u \in Accounts : ~SignIn(u)
  PROVE  {stored', profile', boot', entry'} \subseteq {stored, profile, boot, entry, None}
<1>1. CASE Load \/ HearBoot \/ HearEntry \/ SignOut \/ ChangePassword \/ Expire
  BY <1>1 DEF Load, HearBoot, HearEntry, SignOut, ChangePassword, Expire, Forget, Clear, ProfileOf
<1>2. CASE HearGet \/ HearSave
  BY <1>2 DEF HearGet, HearSave, Clear, Forget
<1>3. CASE UNCHANGED sessionVars
  BY <1>3 DEF sessionVars
<1>4. QED
  BY <1>1, <1>2, <1>3 DEF ConsoleNext, SessionStep, PageStep, ElsewhereStep, OpenPage, SwitchVenue, Ask,
     OpenDialog, CloseDialog, TypeSetting, TypeInDialog, Toggle, Save, ServeSave,
     EditElsewhere, Invite, UpdateStaff, vars

\* Only the staff page's calls touch an account, and only of a venue's staff.
LEMMA AccountsMove ==
  ASSUME ConsoleTypeOK, [ConsoleNext]_vars, NEW u \in Accounts, Home[u] = None
  PROVE  account'[u] = account[u]
<1>1. ASSUME NEW v \in Accounts, NEW role \in Offered, Invite(v, role) \/ UpdateStaff(v, role)
      PROVE  account'[u] = account[u]
  BY <1>1 DEF Invite, UpdateStaff, WithRole, ConsoleTypeOK
<1>2. CASE UNCHANGED account
  BY <1>2
<1>3. QED
  BY <1>1, <1>2 DEF ConsoleNext, SessionStep, PageStep, ElsewhereStep, Load, SignIn, HearBoot, HearEntry,
     SignOut, ChangePassword, Expire, OpenPage, SwitchVenue, Ask, HearGet,
     OpenDialog, CloseDialog, TypeSetting, TypeInDialog, Toggle, Save, ServeSave, HearSave,
     EditElsewhere, serverVars, vars

LEMMA RolesStep == ConsoleTypeOK /\ RolesAtHome /\ [ConsoleNext]_vars => RolesAtHome'
<1> SUFFICES ASSUME ConsoleTypeOK, RolesAtHome, [ConsoleNext]_vars PROVE RolesAtHome'
  OBVIOUS
<1>1. \A u \in Accounts : Home[u] = None => account'[u] = "PLATFORM_ADMIN"
  BY AccountsMove DEF RolesAtHome
<1>2. CASE \A u \in Accounts : ~SignIn(u)
  <2>1. {stored', profile', boot', entry'} \subseteq {stored, profile, boot, entry, None}
    BY <1>2, TokensMove
  <2>2. QED
    BY <1>1, <2>1 DEF RolesAtHome
<1>3. ASSUME NEW u \in Accounts, SignIn(u) PROVE RolesAtHome'
  <2>1. stored' = [who |-> u, role |-> account[u]] /\ entry' = stored' /\ profile' = profile /\ boot' = boot
    BY <1>3 DEF SignIn
  <2>2. stored'.role # "PLATFORM_ADMIN" => Home[stored'.who] # None
    BY <2>1 DEF RolesAtHome
  <2>3. QED
    BY <1>1, <2>1, <2>2 DEF RolesAtHome
<1>4. QED
  BY <1>2, <1>3

-----------------------------------------------------------------------------
(* The session *)

\* A session that is cleared leaves nothing of it in the tab.
LEMMA ClearedSession ==
  ASSUME OneSession, stored' = None, Forget, shown' = None, UNCHANGED crossed,
         boot' \in {boot, None}, entry' \in {entry, None}
  PROVE  OneSession'
  BY DEF OneSession, Forget, NotAsking, Empty

\* A GET /auth/me that is answered shows its own session, with a page, if there
\* is one, of its venue.
LEMMA ShownSession ==
  ASSUME ConsoleTypeOK, OneSession, NEW t \in Token, t \in {boot, entry}, t # None,
         profile' = t, Follow(t), UNCHANGED <<stored, cache, crossed>>,
         \/ t = boot /\ boot' = None /\ entry' = entry
         \/ t = entry /\ entry' = None /\ boot' = boot
  PROVE  OneSession'
<1> SUFFICES ASSUME ~crossed' PROVE OneSession'
  BY DEF OneSession
<1>1. /\ profile = None /\ stored \in {t, None} /\ boot' = None /\ entry' = None
      /\ shown = None /\ ~asking.open /\ cache = Empty
  BY DEF OneSession
<1>2. shown' = None /\ asking' = asking
  BY <1>1, ConsoleAssumption DEF Follow
<1>3. \A r \in Rows : cache'[r] = None
  BY <1>1 DEF Empty
<1>4. QED
  BY <1>1, <1>2, <1>3 DEF OneSession

LEMMA SessionStepKeeps == ConsoleTypeOK /\ OneSession /\ SessionStep => OneSession'
<1> SUFFICES ASSUME ConsoleTypeOK, OneSession, SessionStep PROVE OneSession'
  OBVIOUS
<1> USE DEF serverVars, pageVars
<1>1. CASE Load
  BY <1>1 DEF Load, Forget, NotAsking, Empty, OneSession
<1>2. CASE HearBoot
  <2>1. CASE Clear
    BY <1>2, <2>1, ClearedSession DEF HearBoot, Clear, LeavePage
  <2>2. CASE Follow(boot) /\ profile' = ProfileOf(boot) /\ UNCHANGED <<stored, expired, draft, cache, saving>>
    <3>1. /\ boot \in Token /\ boot # None /\ profile' = boot /\ boot' = None
          /\ UNCHANGED <<stored, cache, crossed, entry>>
      BY <1>2, <2>2 DEF HearBoot, ProfileOf, ConsoleTypeOK
    <3>2. QED
      BY <2>2, <3>1, ShownSession
  <2>3. QED
    BY <1>2, <2>1, <2>2 DEF HearBoot
<1>3. CASE HearEntry
  <2>1. CASE Clear /\ UNCHANGED loading
    BY <1>3, <2>1, ClearedSession DEF HearEntry, Clear, LeavePage
  <2>2. CASE /\ Follow(entry) /\ profile' = ProfileOf(entry) /\ loading' = FALSE
             /\ UNCHANGED <<stored, expired, draft, cache, saving>>
    <3>1. /\ entry \in Token /\ entry # None /\ profile' = entry /\ entry' = None
          /\ UNCHANGED <<stored, cache, crossed, boot>>
      BY <1>3, <2>2 DEF HearEntry, ProfileOf, ConsoleTypeOK
    <3>2. QED
      BY <2>2, <3>1, ShownSession
  <2>3. CASE UNCHANGED <<stored, expired, profile, loading, pageVars>>
    <3>1. entry' = None /\ UNCHANGED <<stored, profile, shown, cache, asking, boot, crossed>>
      BY <1>3, <2>3 DEF HearEntry
    <3>2. QED
      BY <3>1 DEF OneSession
  <2>4. QED
    BY <1>3, <2>1, <2>2, <2>3 DEF HearEntry
<1>4. CASE SignOut
  BY <1>4, ClearedSession DEF SignOut, Clear, LeavePage
<1>5. CASE ChangePassword
  <2>1. CASE Clear
    BY <1>5, <2>1, ClearedSession DEF ChangePassword, Clear, LeavePage
  <2>2. CASE UNCHANGED <<stored, expired, profile, pageVars>>
    BY <1>5, <2>2 DEF ChangePassword, OneSession
  <2>3. QED
    BY <1>5, <2>1, <2>2 DEF ChangePassword
<1>6. CASE Expire
  BY <1>6 DEF Expire, OneSession
<1>7. ASSUME NEW u \in Accounts, SignIn(u) PROVE OneSession'
  <2> SUFFICES ASSUME ~crossed' PROVE OneSession'
    BY DEF OneSession
  <2>1. /\ ~crossed /\ boot' = None /\ entry' = stored' /\ profile = None
        /\ UNCHANGED <<profile, shown, asking, cache>>
    BY <1>7 DEF SignIn, ConsoleTypeOK
  <2>2. shown = None /\ ~asking.open /\ cache = Empty
    BY <2>1 DEF OneSession
  <2>3. QED
    BY <2>1, <2>2 DEF OneSession, Empty
<1>8. QED
  BY <1>1, <1>2, <1>3, <1>4, <1>5, <1>6, <1>7 DEF SessionStep

LEMMA PageStepKeeps == ConsoleTypeOK /\ RolesAtHome /\ OneSession /\ PageStep => OneSession'
<1> SUFFICES ASSUME ConsoleTypeOK, RolesAtHome, OneSession, PageStep PROVE OneSession'
  OBVIOUS
<1> USE DEF serverVars, sessionVars
<1>1. ASSUME NEW r \in Rows, OpenPage(r) PROVE OneSession'
  <2>1. /\ profile # None /\ shown' = r /\ asking' = NotAsking /\ Home[profile.who] \in {None, VenueOf[r]}
        /\ UNCHANGED <<stored, profile, boot, entry, crossed, cache>>
    BY <1>1 DEF OpenPage, InConsole
  <2>2. profile.role # "PLATFORM_ADMIN" => Home[profile.who] # None
    BY <2>1 DEF RolesAtHome
  <2>3. QED
    BY <2>1, <2>2 DEF OneSession, NotAsking
<1>2. ASSUME NEW r \in Rows, SwitchVenue(r) PROVE OneSession'
  BY <1>2 DEF SwitchVenue, InConsole, OneSession, NotAsking
<1>3. CASE Ask
  BY <1>3 DEF Ask, Sent, InConsole, OneSession
<1>4. CASE HearGet
  <2>1. CASE Clear
    BY <1>4, <2>1, ClearedSession DEF HearGet, Clear, LeavePage
  <2>2. CASE /\ asking' = NotAsking
             /\ UNCHANGED <<stored, expired, profile, shown, draft, cache, saving>>
    BY <1>4, <2>2 DEF HearGet, OneSession, NotAsking
  <2>3. CASE /\ Verifies(asking.token)
             /\ cache' = [cache EXCEPT ![shown] = [by |-> asking.token, view |-> row[shown]]]
             /\ asking' = NotAsking
             /\ UNCHANGED <<stored, expired, profile, shown, draft, saving>>
    <3> SUFFICES ASSUME ~crossed' PROVE OneSession'
      BY DEF OneSession
    <3>1. ~crossed /\ asking.open /\ UNCHANGED <<boot, entry, crossed>>
      BY <1>4 DEF HearGet
    <3>2. profile # None /\ asking.token = profile
      BY <2>3, <3>1 DEF OneSession, Verifies
    <3>3. \A r \in Rows : cache'[r] # None => cache'[r].by = profile
      BY <2>3, <3>1, <3>2 DEF OneSession, ConsoleTypeOK
    <3>4. ~asking'.open
      BY <2>3 DEF NotAsking
    <3>5. QED
      BY <2>3, <3>1, <3>2, <3>3, <3>4 DEF OneSession
  <2>4. QED
    BY <1>4, <2>1, <2>2, <2>3 DEF HearGet
<1>5. CASE UNCHANGED <<sessionVars, shown, cache, asking>>
  BY <1>5 DEF OneSession
<1>6. CASE HearSave
  <2>1. CASE stored' = None /\ Forget /\ shown' = None
    BY <1>6, <2>1, ClearedSession DEF HearSave
  <2>2. CASE UNCHANGED <<stored, profile, shown, cache>> /\ asking' = asking
    BY <1>6, <2>2 DEF HearSave, OneSession
  <2>3. CASE UNCHANGED <<stored, profile, shown, cache>> /\ profile # None /\ asking' = Sent
    BY <1>6, <2>3 DEF HearSave, OneSession, Sent
  <2>4. QED
    BY <1>6, <2>1, <2>2, <2>3 DEF HearSave, InConsole
<1>7. QED
  BY <1>1, <1>2, <1>3, <1>4, <1>5, <1>6 DEF PageStep, OpenDialog, CloseDialog, TypeSetting, TypeInDialog,
     Toggle, Save, ServeSave

LEMMA OneSessionStep ==
  ConsoleTypeOK /\ RolesAtHome /\ OneSession /\ [ConsoleNext]_vars => OneSession'
<1>1. OneSession /\ UNCHANGED <<sessionVars, pageVars>> => OneSession'
  BY DEF OneSession, sessionVars, pageVars
<1>2. ElsewhereStep => UNCHANGED <<sessionVars, pageVars>>
  BY DEF ElsewhereStep, EditElsewhere, Invite, UpdateStaff
<1>3. UNCHANGED vars => UNCHANGED <<sessionVars, pageVars>>
  BY DEF vars
<1>4. QED
  BY <1>1, <1>2, <1>3, SessionStepKeeps, PageStepKeeps DEF ConsoleNext

\* There is no session at the start.
LEMMA SessionInit == ConsoleInit => RolesAtHome /\ OneSession
  BY DEF ConsoleInit, RolesAtHome, OneSession, NotAsking, Empty

-----------------------------------------------------------------------------
(* What the settings page sends *)

LEMMA TypedStep == ConsoleTypeOK /\ TypedOnly /\ [ConsoleNext]_vars => TypedOnly'
<1> SUFFICES ASSUME ConsoleTypeOK, TypedOnly, [ConsoleNext]_vars PROVE TypedOnly'
  OBVIOUS
<1> USE DEF serverVars, sessionVars, pageVars
<1>1. None \notin Settings /\ NotSaving.row = None /\ TypedColumns(Untouched)
  BY ConsoleAssumption DEF NotSaving, Untouched, TypedColumns
<1>2. \A how \in {"saved", "forbidden", "refused"} : Answered(how).row = None
  BY DEF Answered, NotSaving
<1>3. /\ [saving EXCEPT !.own = FALSE].row = saving.row
      /\ [saving EXCEPT !.own = FALSE].body = saving.body
  BY DEF ConsoleTypeOK
<1>4. CASE LeavePage
  BY <1>1, <1>3, <1>4 DEF LeavePage, TypedOnly
<1>5. CASE shown' = None /\ draft' = Untouched /\ saving' = NotSaving
  BY <1>1, <1>5 DEF TypedOnly
<1>6. ASSUME UNCHANGED <<draft, saving>>, shown' \in Settings => shown \in Settings PROVE TypedOnly'
  BY <1>6 DEF TypedOnly
<1>7. CASE HearBoot \/ HearEntry
  <2>1. ASSUME NEW t \in {boot, entry}, t # None, Follow(t), UNCHANGED <<draft, saving>> PROVE TypedOnly'
    BY <1>6, <2>1, FollowLemma DEF ConsoleTypeOK
  <2>2. CASE Clear
    BY <1>4, <2>2 DEF Clear
  <2>3. QED
    BY <1>6, <1>7, <2>1, <2>2 DEF HearBoot, HearEntry
<1>8. CASE Load \/ SignOut \/ ChangePassword \/ Expire \/ \E u \in Accounts : SignIn(u)
  BY <1>4, <1>5, <1>6, <1>8 DEF Load, SignOut, ChangePassword, Expire, SignIn, Clear
<1>9. ASSUME NEW r \in Rows, OpenPage(r) \/ SwitchVenue(r) PROVE TypedOnly'
  <2>1. /\ draft' = Untouched \/ (draft' = draft /\ shown \in Settings)
        /\ saving' \in {saving, [saving EXCEPT !.own = FALSE]}
    BY <1>9 DEF OpenPage, SwitchVenue
  <2>2. QED
    BY <1>1, <1>3, <2>1 DEF TypedOnly
<1>10. CASE HearGet
  <2>1. CASE Clear
    BY <1>4, <2>1 DEF Clear
  <2>2. CASE UNCHANGED <<shown, draft, saving>>
    BY <1>6, <2>2
  <2>3. QED
    BY <1>10, <2>1, <2>2 DEF HearGet
<1>11. CASE OpenDialog \/ CloseDialog \/ \E f \in Here : TypeInDialog(f)
  BY <1>11 DEF OpenDialog, CloseDialog, TypeInDialog, TypedOnly
<1>12. ASSUME NEW f \in Here, TypeSetting(f) PROVE TypedOnly'
  <2>1. shown \in Settings /\ shown' = shown /\ saving' = saving /\ f \in Fields /\ draft'[f] = "mine"
    BY <1>12, ConsoleAssumption DEF TypeSetting
  <2>2. ASSUME NEW g \in Fields, draft'[g] # None PROVE \E h \in Mates(g) : draft'[h] = "mine"
    <3>1. CASE g \in Mates(f)
      BY <2>1, <3>1 DEF Mates
    <3>2. CASE g \notin Mates(f)
      <4>1. f \in Mates(f)
        BY <2>1 DEF Mates
      <4>2. draft'[g] = draft[g]
        BY <1>12, <3>2, <4>1 DEF TypeSetting
      <4>3. PICK h \in Mates(g) : draft[h] = "mine"
        BY <2>1, <2>2, <4>2 DEF TypedOnly, TypedColumns
      <4>4. h \in Fields /\ h \notin Mates(f) /\ h # f
        BY <2>1, <3>2, <4>3 DEF Mates
      <4>5. draft'[h] = "mine"
        BY <1>12, <4>3, <4>4 DEF TypeSetting
      <4>6. QED
        BY <4>3, <4>5
    <3>3. QED
      BY <3>1, <3>2
  <2>3. QED
    BY <2>1, <2>2 DEF TypedOnly, TypedColumns
<1>13. ASSUME NEW f \in Here, Toggle(f) PROVE TypedOnly'
  BY <1>13 DEF Toggle, TypedOnly
<1>14. CASE Save
  BY <1>14 DEF Save, Body, TypedOnly
<1>15. CASE ServeSave
  <2>1. saving'.row = None /\ UNCHANGED <<shown, draft>>
    BY <1>2, <1>15 DEF ServeSave
  <2>2. QED
    BY <1>1, <2>1 DEF TypedOnly
<1>16. CASE HearSave
  <2>1. saving' = NotSaving /\ (shown' = None \/ (shown' = shown /\ draft' \in {draft, Untouched}))
    BY <1>16 DEF HearSave
  <2>2. QED
    BY <1>1, <2>1 DEF TypedOnly
<1>17. CASE Ask \/ ElsewhereStep \/ UNCHANGED vars
  BY <1>6, <1>17 DEF Ask, ElsewhereStep, EditElsewhere, Invite, UpdateStaff, vars
<1>18. QED
  BY <1>7, <1>8, <1>9, <1>10, <1>11, <1>12, <1>13, <1>14, <1>15, <1>16, <1>17
  DEF ConsoleNext, SessionStep, PageStep

\* A PATCH of a settings page puts something back only next to what is typed, and
\* another admin's edit types something new.
LEMMA SettingsReturnWithTheirColumn ==
  ASSUME ConsoleTypeOK, TypedOnly, [ConsoleNext]_vars,
         NEW r \in Settings, NEW f \in Fields, row[r][f] # "first", row'[r][f] = "first"
  PROVE  \E g \in Mates(f) \ {f} : row'[r][g] = "mine"
<1> DEFINE Goal == \E g \in Mates(f) \ {f} : row'[r][g] = "mine"
<1>1. r \in Rows
  BY ConsoleAssumption
<1>2. CASE row' = row
  BY <1>2
<1>3. ASSUME NEW s \in Rows, NEW g \in Fields, EditElsewhere(s, g) PROVE Goal
  <2> DEFINE body == [Untouched EXCEPT ![g] = "theirs"]
  <2>1. body \in [Fields -> Value \cup {None}] /\ body[f] \in {None, "theirs"}
    BY DEF Untouched, Value
  <2>2. row' = Patched(s, body)
    BY <1>3 DEF EditElsewhere
  <2> HIDE DEF body
  <2>3. row'[r][f] \in {row[r][f], body[f]} /\ (body[f] = None => row'[r][f] = row[r][f])
    BY <1>1, <2>1, <2>2, PatchedType
  <2>4. QED
    BY <2>1, <2>3
<1>4. CASE ServeSave /\ row' = Patched(saving.row, saving.body)
  <2>1. saving.body \in [Fields -> Value \cup {None}] /\ saving.row \in Rows \cup {None}
    BY DEF ConsoleTypeOK
  <2>2. CASE saving.row \in Rows
    <3>1. CASE saving.row = r
      <4>1. row'[r][f] = IF saving.body[f] = None THEN row[r][f] ELSE saving.body[f]
        BY <1>4, <2>1, <2>2, <3>1, PatchedType
      <4>2. saving.body[f] = "first" /\ saving.body[f] # None
        BY <4>1, ConsoleAssumption DEF Value
      <4>3. PICK g \in Mates(f) : saving.body[g] = "mine"
        BY <3>1, <4>2 DEF TypedOnly, TypedColumns
      <4>4. g \in Fields /\ g # f
        BY <4>2, <4>3 DEF Mates
      <4>5. row'[r][g] = "mine"
        <5>1. saving.body[g] # None
          BY <4>3, ConsoleAssumption DEF Value
        <5>2. QED
          BY <1>4, <2>1, <2>2, <3>1, <4>3, <4>4, <5>1, PatchedType
      <4>6. QED
        BY <4>3, <4>4, <4>5
    <3>2. CASE saving.row # r
      BY <1>1, <1>4, <2>1, <2>2, <3>2, PatchedType
    <3>3. QED
      BY <3>1, <3>2
  <2>3. CASE saving.row \notin Rows
    BY <1>1, <1>4, <2>3 DEF Patched, ConsoleTypeOK
  <2>4. QED
    BY <2>2, <2>3
<1>5. \A at \in Elsewhere : at[1] \in Rows /\ at[2] \in Fields
  BY ConsoleAssumption
<1>6. QED
  BY <1>2, <1>3, <1>4, <1>5 DEF ConsoleNext, SessionStep, PageStep, ElsewhereStep, Load, SignIn, HearBoot, HearEntry,
     SignOut, ChangePassword, Expire, OpenPage, SwitchVenue, Ask, HearGet,
     OpenDialog, CloseDialog, TypeSetting, TypeInDialog, Toggle, Save, ServeSave, HearSave,
     Invite, UpdateStaff, serverVars, vars

-----------------------------------------------------------------------------
(* Theorems *)

\* The inductive invariant holds, for any venues, accounts, rows and fields.
THEOREM ConsoleInvHolds == ConsoleSpec => []ConsoleInv
<1>1. ConsoleInit => ConsoleInv
  BY ConsoleTypeInit, SessionInit, ConsoleAssumption
  DEF ConsoleInv, TypedOnly, TypedColumns, ConsoleInit, NotSaving, Untouched
<1>2. ConsoleInv /\ [ConsoleNext]_vars => ConsoleInv'
  BY ConsoleTypeStep, RolesStep, OneSessionStep, TypedStep DEF ConsoleInv
<1>3. QED
  BY <1>1, <1>2, PTL DEF ConsoleSpec

\* What the tab draws was served to the session it shows, for any number of
\* sign-outs, late answers and refusals.
THEOREM CacheStaysTheSessions == ConsoleSpec => []CacheIsTheSessions
<1>1. ConsoleInv => CacheIsTheSessions
  BY DEF ConsoleInv, OneSession, CacheIsTheSessions
<1>2. QED
  BY <1>1, ConsoleInvHolds, PTL

\* A page enables its controls exactly where the server would accept them, for
\* any venues and accounts, and whatever the accounts have become since.
THEOREM OfferedStaysAllowed == ConsoleSpec => []OfferedIsAllowed
<1>1. ConsoleInv => OfferedIsAllowed
  <2> SUFFICES ASSUME ConsoleInv, ~crossed, InConsole, shown # None, stored # None
               PROVE  CanWrite(profile) <=> Admits(stored, VenueOf[shown])
    BY DEF OfferedIsAllowed
  <2>1. profile # None /\ stored = profile
    BY DEF ConsoleInv, OneSession, InConsole
  <2>2. profile.role # "PLATFORM_ADMIN" => Home[profile.who] = VenueOf[shown]
    BY <2>1 DEF ConsoleInv, OneSession
  <2>3. QED
    BY <2>1, <2>2 DEF CanWrite, Admits
<1>2. QED
  BY <1>1, ConsoleInvHolds, PTL

\* A save from a settings page brings a value that has been replaced back only in
\* a column of which another field was typed, for any rows, fields and columns,
\* and any number of edits in between.
THEOREM OldValuesReturnOnlyWithTheirColumn == ConsoleSpec => OldValuesReturnWithTheirColumn
<1>1. ConsoleInv /\ [ConsoleNext]_vars =>
        [\A r \in Settings, f \in Fields :
           row[r][f] # "first" /\ row'[r][f] = "first" =>
             \E g \in Mates(f) \ {f} : row'[r][g] = "mine"]_vars
  BY SettingsReturnWithTheirColumn DEF ConsoleInv
<1>2. QED
  BY <1>1, ConsoleInvHolds, PTL DEF ConsoleSpec, OldValuesReturnWithTheirColumn
=============================================================================

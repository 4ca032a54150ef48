------------------------------ MODULE Console ------------------------------
(***************************************************************************)
(* One browser tab of the venue console: the token it keeps in             *)
(* localStorage, the profile it shows, the answers it has cached, the page *)
(* that is being edited and the calls in flight; and on the server the     *)
(* accounts, the scope read from a token, and the rows the pages edit,     *)
(* which other admins edit as well.                                        *)
(*                                                                         *)
(* A token says who signed in and the role of that moment, for twelve      *)
(* hours; the server asks the accounts again only at the next sign-in.     *)
(* Answers are heard after any number of other steps of the tab, or never. *)
(***************************************************************************)
EXTENDS Naturals

CONSTANTS
  Venues,
  Accounts,  \* venue accounts and platform admins
  Home,      \* users.venue_id, which no statement changes
  Rows,      \* what the console edits: settings, and rooms or equipment
  VenueOf,   \* the venue of a row
  Settings,  \* the rows edited on the settings page, one per venue
  Fields,    \* what can be typed in a row, each day of the hours by itself
  Column,    \* the column a field is kept in: all days are in one
  Here,      \* bound: the fields this tab's user edits
  Elsewhere, \* bound: the fields of rows other admins edit meanwhile
  None

\* What a field holds: as it was, as this tab's user or as another admin
\* typed it.
Value == {"first", "mine", "theirs"}

ASSUME ConsoleAssumption ==
  /\ Home \in [Accounts -> Venues \cup {None}]
  /\ None \notin Venues \cup Rows \cup Accounts \cup Value
  /\ VenueOf \in [Rows -> Venues]
  /\ Settings \subseteq Rows /\ Here \subseteq Fields /\ Elsewhere \subseteq Rows \X Fields
  /\ \A r, s \in Settings : VenueOf[r] = VenueOf[s] => r = s
  /\ \A v \in Venues : \E r \in Settings : VenueOf[r] = v

VARIABLES
  account,  \* users: the role, "off" while deactivated, None before there is one
  row,      \* the rows, by field
  stored,   \* the token in localStorage
  expired,  \* whether that token's twelve hours are over
  profile,  \* the profile in React's state
  loading,  \* no GET /auth/me has settled yet
  boot,     \* the token of the load's open GET /auth/me
  entry,    \* the token of a sign-in's open GET /auth/me
  shown,    \* the row whose page is in front
  draft,    \* what has been typed over it
  cache,    \* the cached answers
  asking,   \* the GET in flight of the row in front
  saving,   \* a PATCH of a row in flight
  crossed   \* history: a sign-in has overtaken an open GET /auth/me

serverVars  == <<account, row>>
sessionVars == <<stored, expired, profile, loading, boot, entry, crossed>>
pageVars    == <<shown, draft, cache, asking, saving>>
vars == <<serverVars, sessionVars, pageVars>>

-----------------------------------------------------------------------------
(* Roles and scope *)

VenueRoles == {"VENUE_STAFF", "VENUE_ADMIN"}
Roles      == VenueRoles \cup {"PLATFORM_ADMIN"}

Token == [who: Accounts, role: Roles]

\* venuePredicate: what a read may see.
Reaches(t, v) == t.role = "PLATFORM_ADMIN" \/ Home[t.who] = v

\* requireVenueAdmin.
Admits(t, v) == t.role = "PLATFORM_ADMIN" \/ (t.role = "VENUE_ADMIN" /\ Home[t.who] = v)

\* useCanWrite, from the profile.
CanWrite(p) == p.role \in {"VENUE_ADMIN", "PLATFORM_ADMIN"}

-----------------------------------------------------------------------------
(* The tab's state *)

Fresh == [f \in Fields |-> "first"]

Untouched == [f \in Fields |-> None]
Empty     == [r \in Rows |-> None]

NotAsking == [open |-> FALSE, token |-> None]
Sent      == [open |-> TRUE, token |-> stored]
NotSaving == [row |-> None, token |-> None, answer |-> "none", body |-> Untouched,
              own |-> FALSE]

\* A page that is left goes with its local state; its PATCH goes on without it.
LeavePage == /\ shown' = None
             /\ draft' = Untouched
             /\ saving' = [saving EXCEPT !.own = FALSE]

\* Seeded fault: signing out leaves the cached answers.
ForgetProfile == /\ profile' = None
                 /\ asking' = NotAsking
                 /\ UNCHANGED cache

\* setProfile(null) and queryClient.clear(): a query that is removed never
\* hears its answer.  (Its request goes on, and a late 401 to it still ends the
\* session; that is what a save's does, which is followed: HearSave.)
Forget == /\ profile' = None
          /\ cache' = Empty
          /\ asking' = NotAsking

\* clear; and without a profile the shell draws no page.
Clear == /\ stored' = None
         /\ expired' = FALSE
         /\ Forget
         /\ LeavePage

\* A venue account is pinned to its venue: a settings page, which keeps its
\* local state, turns to that venue's row.
Follow(p) ==
  /\ shown' = IF shown \in Settings /\ Home[p.who] \notin {None, VenueOf[shown]}
              THEN CHOOSE r \in Settings : VenueOf[r] = Home[p.who]
              ELSE shown
  /\ asking' = IF shown' = shown THEN asking ELSE NotAsking

-----------------------------------------------------------------------------
(* The session *)

\* A request is refused without a token, or with one whose hours are over; of
\* a token that is no longer the stored one nobody knows.
Verifies(t) == t # None /\ ~(t = stored /\ expired)
Lapses(t)   == t = None \/ t # stored \/ expired

\* The tab is opened or reloaded: everything but localStorage is new, and with
\* a token there the profile is asked for.
Load ==
  /\ Forget
  /\ shown' = None /\ draft' = Untouched /\ saving' = NotSaving
  /\ entry' = None
  /\ boot' = stored
  /\ loading' = (stored # None)
  /\ crossed' = FALSE
  /\ UNCHANGED <<serverVars, stored, expired>>

\* verifyCredentials: an account that is off fails as a wrong password does.
MaySignIn(u) == account[u] \in Roles

\* The answer to POST /auth/login, which read the account and signed what it
\* read; enter stores the token and asks for the profile with it.  (A sign-in
\* pressed before an earlier GET /auth/me has settled is one that overtakes it.)
SignIn(u) ==
  /\ profile = None
  /\ MaySignIn(u)
  /\ stored' = [who |-> u, role |-> account[u]]
  /\ expired' = FALSE
  /\ entry' = stored'
  /\ crossed' = (crossed \/ {boot, entry} # {None})
  /\ UNCHANGED <<serverVars, pageVars, profile, loading, boot>>

\* Seeded fault: the profile tells the role the account has now.
ProfileFromRow(t) == [who |-> t.who, role |-> account[t.who]]

\* authService.profile: who the account is, and the scope as the token has it.
ProfileOf(t) == t

\* load, when its call ends: a 401 and a network that did not answer both end
\* the session that is stored by now.
HearBoot ==
  /\ boot # None
  /\ boot' = None
  /\ loading' = FALSE
  /\ \/ /\ Verifies(boot)
        /\ profile' = ProfileOf(boot)
        /\ Follow(boot)
        /\ UNCHANGED <<stored, expired, draft, cache, saving>>
     \/ Clear
  /\ UNCHANGED <<serverVars, entry, crossed>>

\* enter, when its call ends: only a 401 takes the token away again.
HearEntry ==
  /\ entry # None
  /\ entry' = None
  /\ \/ /\ Verifies(entry)
        /\ profile' = ProfileOf(entry)
        /\ loading' = FALSE
        /\ Follow(entry)
        /\ UNCHANGED <<stored, expired, draft, cache, saving>>
     \/ Lapses(entry) /\ Clear /\ UNCHANGED loading
     \/ UNCHANGED <<stored, expired, profile, loading, pageVars>>
  /\ UNCHANGED <<serverVars, boot, crossed>>

\* The shell draws pages only for a profile, and not while it boots.
InConsole == profile # None /\ ~loading

SignOut ==
  /\ InConsole
  /\ Clear
  /\ UNCHANGED <<serverVars, loading, boot, entry, crossed>>

\* PATCH /auth/password: a wrong current password is answered 401, which signs
\* the user out; a right one leaves every session as it is.
ChangePassword ==
  /\ InConsole
  /\ Verifies(stored)
  /\ Clear \/ UNCHANGED <<stored, expired, profile, pageVars>>
  /\ UNCHANGED <<serverVars, loading, boot, entry, crossed>>

\* Twelve hours after the sign-in.
Expire ==
  /\ stored # None /\ ~expired
  /\ expired' = TRUE
  /\ UNCHANGED <<serverVars, pageVars, stored, profile, loading, boot, entry, crossed>>

-----------------------------------------------------------------------------
(* The pages *)

\* Seeded fault: what has been typed goes along to the next page.
OpenPageKeepsDraft(r) ==
  /\ InConsole
  /\ r # shown
  /\ Home[profile.who] \in {None, VenueOf[r]}
  /\ shown' = r
  /\ saving' = [saving EXCEPT !.own = FALSE]
  /\ asking' = NotAsking
  /\ UNCHANGED <<serverVars, sessionVars, draft, cache>>

\* A page of the venue in front: a platform admin picks the venue.
OpenPage(r) ==
  /\ InConsole
  /\ r # shown
  /\ Home[profile.who] \in {None, VenueOf[r]}
  /\ shown' = r
  /\ draft' = Untouched
  /\ saving' = [saving EXCEPT !.own = FALSE]
  /\ asking' = NotAsking
  /\ UNCHANGED <<serverVars, sessionVars, cache>>

\* The switcher in the top bar: the page in front gets another venue's id, and
\* keeps what has been typed.
SwitchVenue(r) ==
  /\ InConsole
  /\ profile.role = "PLATFORM_ADMIN"
  /\ shown \in Settings /\ r \in Settings \ {shown}
  /\ shown' = r
  /\ asking' = NotAsking
  /\ UNCHANGED <<serverVars, sessionVars, draft, cache, saving>>

\* The page's GET, on mounting it or after a write.
Ask ==
  /\ InConsole /\ shown # None
  /\ ~asking.open
  /\ asking' = Sent
  /\ UNCHANGED <<serverVars, sessionVars, shown, draft, cache, saving>>

\* The server reads the row for the token's scope, 404 beyond it; the answer is
\* cached, a 401 ends the session, anything else leaves an error on the page.
\* (An answer that takes long is a copy that has been cached for long, and one
\* that comes after its page has been left is as one that came before.)
HearGet ==
  /\ asking.open
  /\ \/ /\ Verifies(asking.token)
        /\ Reaches(asking.token, VenueOf[shown])
        /\ cache' = [cache EXCEPT ![shown] = [by |-> asking.token, view |-> row[shown]]]
        /\ asking' = NotAsking
        /\ UNCHANGED <<stored, expired, profile, shown, draft, saving>>
     \/ Lapses(asking.token) /\ Clear
     \/ /\ asking' = NotAsking
        /\ UNCHANGED <<stored, expired, profile, shown, draft, cache, saving>>
  /\ UNCHANGED <<serverVars, loading, boot, entry, crossed>>

\* The page has data and its controls are enabled.
Editable == InConsole /\ shown # None /\ cache[shown] # None /\ CanWrite(profile)

\* A dialog of the rooms or the equipment page takes the whole row as it is
\* cached; the settings page notes what is typed.
OpenDialog ==
  /\ Editable
  /\ shown \notin Settings
  /\ draft = Untouched
  /\ draft' = cache[shown].view
  /\ UNCHANGED <<serverVars, sessionVars, shown, cache, asking, saving>>

Mates(f) == {g \in Fields : Column[g] = Column[f]}

\* A field of the settings page.  The hours editor spreads the week it draws
\* into the draft, typed or fetched, and replaces the one day.
TypeSetting(f) ==
  /\ Editable
  /\ shown \in Settings
  /\ draft' = [g \in Fields |->
                IF g = f THEN "mine"
                ELSE IF g \in Mates(f) /\ draft[g] = None THEN cache[shown].view[g]
                ELSE draft[g]]
  /\ UNCHANGED <<serverVars, sessionVars, shown, cache, asking, saving>>

\* A field of the dialog.
TypeInDialog(f) ==
  /\ Editable
  /\ shown \notin Settings /\ draft # Untouched
  /\ draft' = [draft EXCEPT ![f] = "mine"]
  /\ UNCHANGED <<serverVars, sessionVars, shown, cache, asking, saving>>

\* Cancel: the dialog goes, and a save it has sent does not.
CloseDialog ==
  /\ InConsole
  /\ shown \in Rows \ Settings /\ draft # Untouched
  /\ draft' = Untouched
  /\ UNCHANGED <<serverVars, sessionVars, shown, cache, asking, saving>>

\* Seeded fault: the settings page sends what it draws.
BodyOfAll == [f \in Fields |-> IF draft[f] = None THEN cache[shown].view[f] ELSE draft[f]]

\* The request's body: the columns in it are replaced, the others stay.
Body == draft

\* Save, not while the page's last one is open.  (Bound: nor while one is that a
\* page left behind has sent.)
Save ==
  /\ Editable
  /\ draft # Untouched
  /\ saving.answer = "none"
  /\ saving' = [row |-> shown, token |-> stored, answer |-> "waiting", body |-> Body, own |-> TRUE]
  /\ UNCHANGED <<serverVars, sessionVars, shown, draft, cache, asking>>

\* Archive or Restore, in a row of the rooms or the equipment table: a PATCH of
\* one field, which no dialog waits for.  (Bound: one PATCH at a time here too.)
Toggle(f) ==
  /\ Editable
  /\ shown \notin Settings /\ draft = Untouched
  /\ saving.answer = "none"
  /\ saving' = [row |-> shown, token |-> stored, answer |-> "waiting",
                body |-> [Untouched EXCEPT ![f] = "mine"], own |-> FALSE]
  /\ UNCHANGED <<serverVars, sessionVars, shown, draft, cache, asking>>

\* What is left of a PATCH that has been answered.
Answered(how) == [NotSaving EXCEPT !.answer = how, !.own = saving.own]

\* One UPDATE of the columns in the body.
Patched(r, body) ==
  [row EXCEPT ![r] = [f \in Fields |-> IF body[f] = None THEN @[f] ELSE body[f]]]

\* requireVenueAdmin, then the UPDATE.
ServeSave ==
  /\ saving.answer = "waiting"
  /\ \/ /\ Verifies(saving.token)
        /\ Admits(saving.token, VenueOf[saving.row])
        /\ row' = Patched(saving.row, saving.body)
        /\ saving' = Answered("saved")
     \/ /\ Verifies(saving.token)
        /\ ~Admits(saving.token, VenueOf[saving.row])
        /\ saving' = Answered("forbidden")
        /\ UNCHANGED row
     \/ /\ Lapses(saving.token)
        /\ saving' = Answered("refused")
        /\ UNCHANGED row
  /\ UNCHANGED <<account, sessionVars, shown, draft, cache, asking>>

\* Saved: the page forgets what was typed and asks again.  Forbidden, or no
\* answer: a toast.
HearSave ==
  /\ saving.answer # "none"
  /\ \/ /\ saving.answer = "saved"
        /\ saving' = NotSaving
        /\ draft' = IF saving.own THEN Untouched ELSE draft
        /\ asking' = IF InConsole /\ shown # None
                     THEN Sent ELSE asking
        /\ UNCHANGED <<stored, expired, profile, shown, cache>>
     \/ /\ saving.answer = "refused"
        /\ stored' = None /\ expired' = FALSE
        /\ Forget
        /\ shown' = None /\ draft' = Untouched /\ saving' = NotSaving
     \/ /\ saving.answer # "refused"
        /\ saving' = NotSaving
        /\ UNCHANGED <<stored, expired, profile, shown, draft, cache, asking>>
  /\ UNCHANGED <<serverVars, loading, boot, entry, crossed>>

-----------------------------------------------------------------------------
(* Everybody else *)

\* Another admin of the venue, on another device, saves a field.
EditElsewhere(r, f) ==
  /\ row' = Patched(r, [Untouched EXCEPT ![f] = "theirs"])
  /\ UNCHANGED <<account, sessionVars, pageVars>>

\* What the staff page's two selects and its switch offer.
Offered == VenueRoles \cup {"off"}

\* The row that is inserted, or updated where it is of the venue.
WithRole(u, role) == [account EXCEPT ![u] = role]

\* POST /venues/:id/staff: a venue role, at the venue of the admin who asks.
Invite(u, role) ==
  /\ Home[u] # None /\ account[u] = None
  /\ role \in VenueRoles
  /\ account' = WithRole(u, role)
  /\ UNCHANGED <<row, sessionVars, pageVars>>

\* PATCH /venues/:id/staff/:userId by another admin: a role of the venue, or
\* off; never a platform role or a platform admin's row.
UpdateStaff(u, role) ==
  /\ Home[u] # None /\ account[u] # None
  /\ role \in Offered
  /\ account' = WithRole(u, role)
  /\ UNCHANGED <<row, sessionVars, pageVars>>

-----------------------------------------------------------------------------
(* The specification *)

ConsoleInit ==
  /\ account \in [Accounts -> {None, "PLATFORM_ADMIN"}]
  /\ \A u \in Accounts : account[u] = None <=> Home[u] # None
  /\ row = [r \in Rows |-> Fresh]
  /\ stored = None /\ expired = FALSE
  /\ profile = None /\ loading = FALSE /\ boot = None /\ entry = None
  /\ shown = None /\ draft = Untouched /\ cache = Empty
  /\ asking = NotAsking /\ saving = NotSaving
  /\ crossed = FALSE

SessionStep ==
  \/ Load \/ HearBoot \/ HearEntry \/ SignOut \/ ChangePassword \/ Expire
  \/ \E u \in Accounts : SignIn(u)

PageStep ==
  \/ \E r \in Rows : OpenPage(r) \/ SwitchVenue(r)
  \/ Ask \/ HearGet
  \/ OpenDialog \/ CloseDialog
  \/ \E f \in Here : TypeSetting(f) \/ TypeInDialog(f) \/ Toggle(f)
  \/ Save \/ ServeSave \/ HearSave

ElsewhereStep ==
  \/ \E at \in Elsewhere : EditElsewhere(at[1], at[2])
  \/ \E u \in Accounts, role \in Offered : Invite(u, role) \/ UpdateStaff(u, role)

ConsoleNext == SessionStep \/ PageStep \/ ElsewhereStep

ConsoleSpec == ConsoleInit /\ [][ConsoleNext]_vars

-----------------------------------------------------------------------------
(* Properties *)

\* Every variable has its type.
ConsoleTypeOK ==
  /\ account \in [Accounts -> Roles \cup {"off", None}]
  /\ row \in [Rows -> [Fields -> Value]]
  /\ {stored, profile, boot, entry} \subseteq Token \cup {None}
  /\ {expired, loading, crossed} \subseteq BOOLEAN
  /\ shown \in Rows \cup {None}
  /\ draft \in [Fields -> Value \cup {None}]
  /\ cache \in [Rows -> [by: Token, view: [Fields -> Value]] \cup {None}]
  /\ asking \in [open: BOOLEAN, token: Token \cup {None}]
  /\ saving \in [row: Rows \cup {None}, token: Token \cup {None}, own: BOOLEAN,
                 answer: {"none", "waiting", "saved", "forbidden", "refused"},
                 body: [Fields -> Value \cup {None}]]

\* What the tab draws was served to the session it shows: through sign-outs,
\* late answers, late refusals and a network that fails, no answer of an
\* earlier session is in the cache.  (Not when a sign-in overtakes an open
\* GET /auth/me: crossed.)
CacheIsTheSessions ==
  ~crossed => \A r \in Rows : cache[r] # None => cache[r].by = profile

\* The controls a page enables are those the server will accept, neither more
\* nor fewer, although the account's role may have changed since the sign-in.
OfferedIsAllowed ==
  ~crossed /\ InConsole /\ shown # None /\ stored # None =>
    (CanWrite(profile) <=> Admits(stored, VenueOf[shown]))

\* A save from the settings page brings a value that has been replaced back only
\* in a column of several fields, of which another was typed: so never the name,
\* the city or the timezone, and a day's hours only with another day's.  However
\* old the copy it was typed over, and whoever's row it is by the time it is
\* saved.  (Other admins' saves are taken to be over a copy that is not old.)
OldValuesReturnWithTheirColumn ==
  [][\A r \in Settings, f \in Fields :
       row[r][f] # "first" /\ row'[r][f] = "first" =>
         \E g \in Mates(f) \ {f} : row'[r][g] = "mine"]_vars

-----------------------------------------------------------------------------
(* The inductive invariant *)

\* Only a platform admin is of no venue.
RolesAtHome ==
  /\ \A u \in Accounts : Home[u] = None => account[u] = "PLATFORM_ADMIN"
  /\ \A t \in {stored, profile, boot, entry} :
       t # None /\ t.role # "PLATFORM_ADMIN" => Home[t.who] # None

\* One session at a time, unless a sign-in overtakes an open GET /auth/me: the
\* profile is that of the stored token, or of one that has been given up, and
\* the page, its answers and its calls are the profile's.
OneSession ==
  ~crossed =>
    /\ boot = None \/ entry = None
    /\ \A t \in {boot, entry} : t # None => profile = None /\ stored \in {t, None}
    /\ profile = None => shown = None /\ ~asking.open /\ cache = Empty
    /\ profile # None => stored \in {profile, None}
    /\ asking.open => asking.token \in {profile, None}
    /\ \A r \in Rows : cache[r] # None => cache[r].by = profile
    /\ profile # None /\ shown # None /\ profile.role # "PLATFORM_ADMIN" =>
         Home[profile.who] = VenueOf[shown]

\* From the settings page only columns are sent in which something was typed.
TypedColumns(d) == \A f \in Fields : d[f] # None => \E g \in Mates(f) : d[g] = "mine"

TypedOnly ==
  /\ shown \in Settings => TypedColumns(draft)
  /\ saving.row \in Settings => TypedColumns(saving.body)

ConsoleInv == ConsoleTypeOK /\ RolesAtHome /\ OneSession /\ TypedOnly
=============================================================================

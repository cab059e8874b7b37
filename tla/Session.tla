-------------------------------- MODULE Session --------------------------------
(***************************************************************************)
(* The session of a user: who he is (app.config.ts, auth-utils.ts,         *)
(* dlm.component.ts, user.service.ts), what a refused request leads to     *)
(* (auth.interceptor.ts), and the time zone that is used for every time    *)
(* shown or typed (time-zone.service.ts, user-dropdown.component.ts,       *)
(* fmt-tz.pipe.ts), which is kept in the storage of the browser.           *)
(***************************************************************************)
EXTENDS FiniteSets

CONSTANTS ZoneOf,      \* the first zone of each group of zones
          UserRoles,   \* the users there may be: their roles
          NoZone

ROLES == {"SUPERADMIN", "INFRAADMIN", "CURATOR", "USER"}
SessionConstants ==
  /\ NoZone \notin DOMAIN ZoneOf
  /\ \A u \in DOMAIN UserRoles : UserRoles[u] \subseteq ROLES
NoUser == "nobody"

VARIABLES window,             \* what the browser shows
          clientZone,         \* the group its zone is in, or NoZone
          storedZone,         \* localStorage: tz, shared by all tabs
          userTimezoneIndex, defaultZone, \* of the service, and of moment
          timezoneValue,      \* of the dropdown
          lastTz, marked,     \* the zone of a time on the page; it is to be drawn again
          identityCall, user, personas,
          showLoading, logoutCall

sessionVars == <<window, clientZone, storedZone, userTimezoneIndex, defaultZone, timezoneValue,
                 lastTz, marked, identityCall, user, personas, showLoading, logoutCall>>
zoneVars == <<userTimezoneIndex, defaultZone, timezoneValue, lastTz, marked>>
userVars == <<user, personas>>

Zones == DOMAIN ZoneOf

Init ==
  /\ window = "none" /\ clientZone \in Zones \cup {NoZone} /\ storedZone \in Zones \cup {NoZone}
  /\ userTimezoneIndex = NoZone /\ defaultZone = NoZone /\ timezoneValue = NoZone
  /\ lastTz = NoZone /\ marked = FALSE /\ identityCall = FALSE /\ user = NoUser
  /\ personas = {} /\ showLoading = FALSE /\ logoutCall = FALSE

\* setTimezone.  The pipes hear of the zone, and are drawn again when it is another one.
IndexOnly(zone) ==
  /\ userTimezoneIndex' = zone /\ marked' = (marked \/ lastTz # zone)
  /\ UNCHANGED defaultZone
SetTimezone(zone) ==
  /\ userTimezoneIndex' = zone /\ marked' = (marked \/ lastTz # zone)
  /\ defaultZone' = ZoneOf[zone]

\* The page is loaded, or loaded again: without a zone of the user or of the browser the
\* application does not start.
Load ==
  /\ LET zone == IF storedZone = NoZone THEN clientZone ELSE storedZone
     IN /\ window' = IF zone = NoZone THEN "broken" ELSE "app"
        /\ userTimezoneIndex' = zone /\ timezoneValue' = zone
        /\ defaultZone' = IF zone = NoZone THEN NoZone ELSE ZoneOf[zone]
  /\ lastTz' = NoZone /\ marked' = TRUE
  /\ user' = NoUser /\ personas' = {} /\ identityCall' = TRUE
  /\ showLoading' = FALSE /\ logoutCall' = FALSE
  /\ UNCHANGED <<clientZone, storedZone>>

\* A pipe draws its time in the zone it heard of last.
Transform ==
  /\ window = "app" /\ marked /\ marked' = FALSE /\ lastTz' = userTimezoneIndex
  /\ UNCHANGED <<window, clientZone, storedZone, userTimezoneIndex, defaultZone, timezoneValue,
                 identityCall, userVars, showLoading, logoutCall>>

SaveUserTimezone(zone) ==
  /\ window = "app" /\ ~showLoading /\ zone # timezoneValue
  /\ timezoneValue' = zone /\ storedZone' = zone /\ SetTimezone(zone)
  /\ UNCHANGED <<window, clientZone, lastTz, identityCall, userVars, showLoading, logoutCall>>

OtherTab(zone) ==
  /\ storedZone' = zone /\ zone # storedZone
  /\ UNCHANGED <<window, clientZone, zoneVars, identityCall, userVars, showLoading, logoutCall>>

\* getPersonaDetails: the entries of the menu, with their addresses.
Entry(name, url) == [name |-> name, url |-> url]
PersonaMap ==
  [SUPERADMIN |-> {Entry("DataPlane Admin", "/infra")},
   INFRAADMIN |-> {Entry("Cluster Admin", "/infra"), Entry("Data Lifecycle Manager", "")},
   CURATOR    |-> {Entry("Data Steward", "/datasteward/collections")},
   USER       |-> {Entry("Analytics", "/workspace")}]
EveryRole(roles) == UNION {PersonaMap[r] : r \in roles}
PersonaDetails(roles) ==
  EveryRole(roles) \ (IF {"SUPERADMIN", "INFRAADMIN"} \subseteq roles
                      THEN {Entry("Cluster Admin", "/infra")} ELSE {})

LogoutUser == showLoading' = TRUE /\ logoutCall' = TRUE

\* The answer to the call for the user: the user u, or one without an id.
LoggedIn(u) ==
  /\ window = "app" /\ identityCall /\ identityCall' = FALSE
  /\ user' = u /\ personas' = PersonaDetails(UserRoles[u])
  /\ UNCHANGED <<window, clientZone, storedZone, zoneVars, showLoading, logoutCall>>

LoggedInUnknown ==
  /\ window = "app" /\ identityCall /\ identityCall' = FALSE
  /\ LogoutUser
  /\ UNCHANGED <<window, clientZone, storedZone, zoneVars, userVars>>

Logout ==
  /\ window = "app" /\ ~showLoading /\ LogoutUser
  /\ UNCHANGED <<window, clientZone, storedZone, zoneVars, identityCall, userVars>>

\* AuthInterceptor: a request is answered with 401 or 403, for any of the pages.
Redirected(status) == IF status = 401 THEN "login" ELSE "unauthorized"

Refused(status) ==
  /\ window = "app" /\ window' = Redirected(status)
  /\ identityCall' = FALSE /\ logoutCall' = FALSE
  /\ UNCHANGED <<clientZone, storedZone, zoneVars, userVars, showLoading>>

\* Other answers to these two calls.  That to a logout has no headers to read the address
\* from, as only its body is given: nothing happens.
IdentityFailed ==
  /\ window = "app" /\ identityCall /\ identityCall' = FALSE
  /\ UNCHANGED <<window, clientZone, storedZone, zoneVars, userVars, showLoading, logoutCall>>

LogoutAnswered ==
  /\ window = "app" /\ logoutCall /\ logoutCall' = FALSE
  /\ UNCHANGED <<window, clientZone, storedZone, zoneVars, identityCall, userVars, showLoading>>

Next ==
  \/ Load \/ Transform
  \/ \E zone \in Zones : SaveUserTimezone(zone) \/ OtherTab(zone)
  \/ \E u \in DOMAIN UserRoles : LoggedIn(u)
  \/ LoggedInUnknown \/ Logout
  \/ \E status \in {401, 403} : Refused(status)
  \/ IdentityFailed \/ LogoutAnswered

-----------------------------------------------------------------------------

TypeOK ==
  /\ window \in {"none", "app", "broken", "login", "unauthorized"}
  /\ {clientZone, storedZone, userTimezoneIndex, timezoneValue, lastTz}
       \subseteq Zones \cup {NoZone}
  /\ {marked, identityCall, showLoading, logoutCall} \subseteq BOOLEAN
  /\ user \in DOMAIN UserRoles \cup {NoUser}

\* There is one clock: times that are drawn, times that are typed (moment's own zone) and
\* the dropdown are of one zone, whatever other tabs store meanwhile (setTimezone, fmtTz).
OneClock ==
  window = "app" =>
    /\ defaultZone = ZoneOf[userTimezoneIndex] /\ timezoneValue = userTimezoneIndex
    /\ ~marked => lastTz = userTimezoneIndex

\* The menu has no address twice, and leads to this application those who administer
\* clusters (getPersonaDetails).
PersonasFit ==
  /\ \A e, f \in personas : e.url = f.url => e = f
  /\ (Entry("Data Lifecycle Manager", "") \in personas)
       <=> (user # NoUser /\ "INFRAADMIN" \in UserRoles[user])
=============================================================================

------------------------------- MODULE WebPages -------------------------------
(***************************************************************************)
(* Pages and dialogs of the web interface that make requests, and requests *)
(* as such: the pages of pairings, those of cloud accounts, the dialog of  *)
(* an account, of the wizard the directory of the source, the list of      *)
(* clusters, the session of the user and what he is told of requests.      *)
(* Each part is a module of its own.  What they share is the manner of the *)
(* requests: AsyncActions says which calls are cancelled and who is told,  *)
(* and the calls of the pages are some that a newer one replaces           *)
(* (switchMap).                                                            *)
(* Beside that they have no state in common, so that it is enough to check *)
(* one at a time: part names the one that takes steps in a behaviour.      *)
(***************************************************************************)
EXTENDS Integers, Sequences

CONSTANTS Clusters, NoCluster, Initially, Is10, Params, MaxOthers, MaxCreates,  \* PairingPages
          AccessKeys, Names, Accounts, MaxShows,           \* AccountForm
          MaxActs,                                         \* AccountsList
          MaxEdits,                                        \* SourceDirectory
          ListClusters, MaxTurns,                          \* ClusterList
          MaxStack, MaxToasts,                             \* Toasts
          MaxRequests, Types, Merged, Deletions            \* AsyncActions

VARIABLES part,
          server, fit, route, pairings, pairingProgress, loading, loadingClusters,
          creating, deleting, confirming, firstClusterId, selectedFirst, selectedSecond,
          secondSet, isPairingProgress, others, creates,
          open, account, form, isValidationInProgress, isSaveInProgress, progress,
          validation, addition, update, validated, saved, shows,
          keystore, beacon, using, accounts, creds, inUse, listCall, credsCall,
          confirmed, deletion, unheard, early, acts,
          is10, path, debouncing, hdfsRootPath, shown, listed, fileCall, inProgress,
          lastResult, ancestor, verdict, apart, edits,
          window, clientZone, storedZone, userTimezoneIndex, defaultZone, timezoneValue, lastTz,
          marked, identityCall, user, personas, showLoading, logoutCall,
          paired, defined, everDefined, listedClusters, pairKeys, hasAccounts, pending,
          submitted, posting, opened, leadsTo, turns,
          ended, toasts, errors, activeErrorId, listening,
          made, kind, how, queue, entities, calls, emits, observer, told

pairingVars == <<server, fit, route, pairings, pairingProgress, loading, loadingClusters,
                 creating, deleting, confirming, firstClusterId, selectedFirst, selectedSecond,
                 secondSet, isPairingProgress, others, creates>>
requestVars == <<made, kind, how, queue, entities, calls, emits, observer, told>>
accountVars == <<open, account, form, isValidationInProgress, isSaveInProgress, progress,
                 validation, addition, update, validated, saved, shows>>
accountsVars == <<keystore, beacon, using, accounts, creds, inUse, listCall, credsCall,
                  confirmed, deletion, unheard, early, acts>>
directoryVars == <<is10, path, debouncing, hdfsRootPath, shown, listed, fileCall, inProgress,
                   lastResult, ancestor, verdict, apart, edits>>
clusterVars == <<paired, defined, everDefined, listedClusters, pairKeys, hasAccounts, pending,
                 submitted, posting, opened, leadsTo, turns>>
sessionVars == <<window, clientZone, storedZone, userTimezoneIndex, defaultZone, timezoneValue,
                 lastTz, marked, identityCall, user, personas, showLoading, logoutCall>>
toastVars == <<ended, toasts, errors, activeErrorId, listening>>
vars == <<part, pairingVars, accountVars, accountsVars, directoryVars, clusterVars,
          sessionVars, toastVars, requestVars>>

Pairings == INSTANCE PairingPages WITH entities <- pairings, progress <- pairingProgress
CloudAccount == INSTANCE AccountForm
CloudAccounts == INSTANCE AccountsList WITH Ids <- Names, confirming <- confirmed
\* What there is in HDFS, and what else is typed.
Directories == {<<>>, <<"a">>, <<"a", "b">>, <<"a", "b", "c">>}
Files == {<<"a", "f">>}
Missing == {<<"x">>, <<"a", "x">>, <<"x", "b">>, <<"a", "b", "x">>,
            <<"x", "b", "c">>}
Directory == INSTANCE SourceDirectory WITH listCall <- fileCall
ListOfClusters == INSTANCE ClusterList WITH PairedFirst <- {<<1, 2>>}
\* Two time zones, and users of different roles.
ZoneOf == [index \in {"0|Atlantic", "60|Europe"} |->
             IF index = "60|Europe" THEN "Europe/Paris" ELSE "Atlantic/Reykjavik"]
UserRoles == [root |-> {"SUPERADMIN", "INFRAADMIN"}, operator |-> {"INFRAADMIN", "USER"},
              steward |-> {"CURATOR"}]
Session == INSTANCE Session WITH NoZone <- ""
Toasts == INSTANCE Toasts
Requests == INSTANCE AsyncActions

ASSUME WebPagesConstants ==
  /\ Pairings!PairingPagesConstants /\ CloudAccount!AccountFormConstants
  /\ CloudAccounts!AccountsListConstants /\ Directory!SourceDirectoryConstants
  /\ ListOfClusters!ClusterListConstants
  /\ Session!SessionConstants /\ Toasts!ToastsConstants /\ Requests!AsyncConstants

Parts == {"pairings", "account", "accounts", "directory", "clusters", "session", "toasts",
          "requests"}

\* What a part may start with matters to it only.
Init ==
  /\ part \in Parts
  /\ part # "directory" => is10 = FALSE
  /\ part # "session" => clientZone = "" /\ storedZone = ""
  /\ Pairings!Init /\ CloudAccount!Init /\ Directory!Init /\ ListOfClusters!Init
  /\ Session!Init /\ Toasts!Init /\ Requests!Init
  /\ part # "accounts" => keystore = {}
  /\ CloudAccounts!Init

AtWork(p, resting) == part = p /\ UNCHANGED <<part, resting>>
PairingsAtWork == AtWork("pairings", <<accountVars, accountsVars, directoryVars, clusterVars,
                                       sessionVars, toastVars, requestVars>>)
AccountAtWork == AtWork("account", <<pairingVars, accountsVars, directoryVars, clusterVars,
                                     sessionVars, toastVars, requestVars>>)
AccountsAtWork == AtWork("accounts", <<pairingVars, accountVars, directoryVars, clusterVars,
                                       sessionVars, toastVars, requestVars>>)
DirectoryAtWork == AtWork("directory", <<pairingVars, accountVars, accountsVars, clusterVars,
                                         sessionVars, toastVars, requestVars>>)
ClustersAtWork == AtWork("clusters", <<pairingVars, accountVars, accountsVars, directoryVars,
                                       sessionVars, toastVars, requestVars>>)
SessionAtWork == AtWork("session", <<pairingVars, accountVars, accountsVars, directoryVars,
                                     clusterVars, toastVars, requestVars>>)
ToastsAtWork == AtWork("toasts", <<pairingVars, accountVars, accountsVars, directoryVars,
                                   clusterVars, sessionVars, requestVars>>)
RequestsAtWork == AtWork("requests", <<pairingVars, accountVars, accountsVars, directoryVars,
                                       clusterVars, sessionVars, toastVars>>)

Next ==
  \/ PairingsAtWork /\ Pairings!Next
  \/ AccountAtWork /\ CloudAccount!Next
  \/ AccountsAtWork /\ CloudAccounts!Next
  \/ DirectoryAtWork /\ Directory!Next
  \/ ClustersAtWork /\ ListOfClusters!Next
  \/ SessionAtWork /\ Session!Next
  \/ ToastsAtWork /\ Toasts!Next
  \/ RequestsAtWork /\ Requests!Next

\* The fairness of the parts: a behaviour has one of them.
Proceed ==
  \/ PairingsAtWork /\ (Pairings!ServeCreate \/ Pairings!PairAnswered)
  \/ DirectoryAtWork /\ (Directory!Debounced \/ Directory!ListFilesDone)
  \/ RequestsAtWork /\ (Requests!Reduce \/ Requests!Emit)
Respond(r) == RequestsAtWork /\ r \in Requests!Made /\ Requests!Respond(r)

Spec ==
  /\ Init /\ [][Next]_vars
  /\ WF_vars(Proceed)
  /\ \A r \in Requests!Requests : WF_vars(Respond(r))

-----------------------------------------------------------------------------

\* The types of the variables of the part at work; those of the others are as they begin.
TypeOK ==
  /\ part \in Parts
  /\ part = "pairings" => Pairings!TypeOK
  /\ part = "account" => CloudAccount!TypeOK
  /\ part = "accounts" => CloudAccounts!TypeOK
  /\ part = "directory" => Directory!TypeOK
  /\ part = "clusters" => ListOfClusters!TypeOK
  /\ part = "session" => Session!TypeOK
  /\ part = "toasts" => Toasts!TypeOK
  /\ part = "requests" => Requests!TypeOK

\* What is submitted is fit to be: PairsNew of PairingPages, SavedValidated and
\* NewNamesFree of AccountForm, DirectoryFits of SourceDirectory.
SubmitsFit ==
  /\ part = "pairings" => Pairings!PairsNew
  /\ part = "account" => CloudAccount!SavedValidated /\ CloudAccount!NewNamesFree
  /\ part = "directory" => Directory!DirectoryFits

\* What is shown as busy has a call, and while there is a call it is: BusyHasCall and
\* CallKeepsBusy of AsyncActions, SpinsForCall of AccountForm, SpinsForListing of
\* SourceDirectory.
BusyForCall ==
  /\ part = "requests" => Requests!BusyHasCall /\ Requests!CallKeepsBusy
  /\ part = "account" => CloudAccount!SpinsForCall
  /\ part = "directory" => Directory!SpinsForListing

\* What is shown fits what there is: ListedForReason of AccountsList, BrowsedDefined and
\* PairsLeft of ClusterList, OneClock and PersonasFit of Session, LinksLead of Toasts.
ShownFits ==
  /\ part = "accounts" => CloudAccounts!ListedForReason
  /\ part = "clusters" => ListOfClusters!BrowsedDefined /\ ListOfClusters!PairsLeft
  /\ part = "session" => Session!OneClock /\ Session!PersonasFit
  /\ part = "toasts" => Toasts!LinksLead

\* What is kept of requests is that of the newest, and gone in the end: FreshOutcome and
\* NothingLeft of AsyncActions.
OutcomesFit == part = "requests" => Requests!FreshOutcome /\ Requests!NothingLeft

\* No part waits for ever: the page that waits for its pair is freed, by success, which
\* leaves it, or by the failure, also the second one in a row; a directory is decided;
\* every observer that stays is told: "@returns observable that emits once on action
\* finish" (async-actions.service.ts:58).
AllEnd ==
  []<>(CASE part = "pairings" -> ~isPairingProgress
         [] part = "directory" -> verdict # "pending"
         [] part = "requests" -> Requests!AllTold
         [] OTHER -> TRUE)
=============================================================================

----------------------------- MODULE AccountsList -----------------------------
(***************************************************************************)
(* The page of cloud accounts: the accounts in the keystore with what the  *)
(* Beacons say of their credentials, the credentials that have no account, *)
(* and their deletion.  Lists of accounts are merged into the store, those *)
(* of credentials replace what it has; each call gives way to the next one *)
(* of its kind (switchMap), the server still doing what it was asked.      *)
(*                                                                         *)
(* An account is its name.  Of policies only whether one is not ended.     *)
(***************************************************************************)
EXTENDS Naturals

CONSTANTS Ids,        \* names of accounts
          MaxActs     \* bound: what is clicked, and changes by other users

AccountsListConstants == MaxActs \in Nat

VARIABLES keystore, beacon, using,  \* server: accounts, credentials, those in use
          accounts, creds, inUse,   \* store: the same as far as it was told
          listCall, credsCall,      \* lists under way
          confirming, deletion,     \* what is confirmed, and the call it leads to
          unheard, early,           \* deleted: with no answer, or when a list was under way
          acts
accountsVars == <<keystore, beacon, using, accounts, creds, inUse, listCall, credsCall,
                  confirming, deletion, unheard, early, acts>>

server == <<keystore, beacon, using>>
store == <<accounts, creds, inUse>>

NoList == [phase |-> "none", ids |-> {}, used |-> {}]
Asked == [NoList EXCEPT !.phase = "sent"]
NoDeletion == [phase |-> "none", id |-> "", registered |-> TRUE]

Init ==
  /\ keystore \in SUBSET Ids /\ beacon = Ids /\ using = {}
  /\ accounts = {} /\ creds = {} /\ inUse = {}
  /\ listCall = Asked /\ credsCall = Asked
  /\ confirming = NoDeletion /\ deletion = NoDeletion
  /\ unheard = {} /\ early = {} /\ acts = 0

-----------------------------------------------------------------------------
(* Other users, and other pages. *)

Act == acts < MaxActs /\ acts' = acts + 1

OtherUser ==
  /\ Act
  /\ \E id \in Ids :
       \/ /\ id \notin keystore /\ keystore' = keystore \cup {id} /\ beacon' = beacon \cup {id}
          /\ UNCHANGED <<using, unheard>>
       \/ /\ id \in keystore \ using /\ keystore' = keystore \ {id} /\ unheard' = unheard \cup {id}
          /\ beacon' \in {beacon, beacon \ {id}} /\ UNCHANGED using
       \/ /\ id \in beacon /\ using' = IF id \in using THEN using \ {id} ELSE using \cup {id}
          /\ UNCHANGED <<keystore, beacon, unheard>>
  /\ UNCHANGED <<store, listCall, credsCall, confirming, deletion, early>>

-----------------------------------------------------------------------------
(* Lists. *)

\* refreshAccounts, after a sync and when the page opens.
Refresh == listCall' = Asked /\ credsCall' = Asked

HandleSyncAccount ==
  /\ Act /\ Refresh
  /\ UNCHANGED <<server, store, confirming, deletion, unheard, early>>

Answered(ids, used) == [phase |-> "served", ids |-> ids, used |-> used]

ServeAccounts ==
  /\ listCall.phase = "sent" /\ listCall' = Answered(keystore, {})
  /\ UNCHANGED <<server, store, credsCall, confirming, deletion, unheard, early, acts>>

ServeCreds ==
  /\ credsCall.phase = "sent" /\ credsCall' = Answered(beacon, using)
  /\ UNCHANGED <<server, store, listCall, confirming, deletion, unheard, early, acts>>

\* Object.assign: what is not in the list stays.
LoadAccountsSuccess ==
  /\ listCall.phase = "served" /\ listCall' = NoList
  /\ accounts' = accounts \cup listCall.ids
  /\ UNCHANGED <<server, creds, inUse, credsCall, confirming, deletion, unheard, early, acts>>

LoadCredsSuccess ==
  /\ credsCall.phase = "served" /\ credsCall' = NoList
  /\ creds' = credsCall.ids /\ inUse' = credsCall.used
  /\ UNCHANGED <<server, accounts, listCall, confirming, deletion, unheard, early, acts>>

LoadFail ==
  /\ \/ listCall # NoList /\ listCall' = NoList /\ UNCHANGED credsCall
     \/ credsCall # NoList /\ credsCall' = NoList /\ UNCHANGED listCall
  /\ UNCHANGED <<server, store, confirming, deletion, unheard, early, acts>>

-----------------------------------------------------------------------------
(* Deletion. *)

getUnregisteredDLMCreds == creds \ accounts
HasUnexpiredPolicies(id) == id \in creds \cap inUse

\* handleRemoveAccount and handleDeleteUnregisteredAccount, before they are confirmed.
Remove(id) ==
  /\ Act /\ confirming = NoDeletion
  /\ id \in accounts \cup getUnregisteredDLMCreds /\ ~HasUnexpiredPolicies(id)
  /\ confirming' = [phase |-> "sent", id |-> id, registered |-> id \in accounts]
  /\ UNCHANGED <<server, store, listCall, credsCall, deletion, unheard, early>>

\* A deletion under way goes unheard, of the same kind; one at a time of both kinds here.
Confirm ==
  /\ confirming # NoDeletion /\ confirming' = NoDeletion
  /\ deletion.phase = "none" \/ deletion.registered = confirming.registered
  /\ deletion' = confirming
  /\ unheard' = IF deletion.phase = "served" /\ deletion.registered
                THEN unheard \cup {deletion.id} ELSE unheard
  /\ UNCHANGED <<server, store, listCall, credsCall, early, acts>>

Cancel ==
  /\ confirming # NoDeletion /\ confirming' = NoDeletion
  /\ UNCHANGED <<server, store, listCall, credsCall, deletion, unheard, early, acts>>

\* Credentials may stay on a Beacon that fails, and the account is gone still.
ServeDelete ==
  /\ deletion.phase = "sent" /\ deletion' = [deletion EXCEPT !.phase = "served"]
  /\ IF deletion.registered
     THEN /\ keystore' = keystore \ {deletion.id}
          /\ early' = IF deletion.id \in listCall.ids THEN early \cup {deletion.id} ELSE early
     ELSE UNCHANGED <<keystore, early>>
  /\ beacon' \in {beacon, beacon \ {deletion.id}}
  /\ UNCHANGED <<using, store, listCall, credsCall, confirming, unheard, acts>>

\* Takes the list of credentials only.
DeleteCredsOnly ==
  /\ deletion.phase = "served" /\ deletion.registered /\ deletion' = NoDeletion
  /\ creds' = creds \ {deletion.id}
  /\ UNCHANGED <<server, accounts, inUse, listCall, credsCall, confirming, unheard, early, acts>>

\* A failure beside the success of a deletion with errors changes nothing more.
DeleteCloudStoreSuccess ==
  /\ deletion.phase = "served" /\ deletion.registered /\ deletion' = NoDeletion
  /\ accounts' = accounts \ {deletion.id} /\ creds' = creds \ {deletion.id}
  /\ UNCHANGED <<server, inUse, listCall, credsCall, confirming, unheard, early, acts>>

\* The answer is lost, or the server did nothing.
DeleteCloudStoreFail ==
  /\ deletion # NoDeletion /\ deletion.registered /\ deletion' = NoDeletion
  /\ unheard' = IF deletion.phase = "served" THEN unheard \cup {deletion.id} ELSE unheard
  /\ UNCHANGED <<server, store, listCall, credsCall, confirming, early, acts>>

\* The page asks for all lists again, whatever the outcome.
DeleteUnregisteredDone ==
  /\ deletion # NoDeletion /\ ~deletion.registered /\ deletion' = NoDeletion
  /\ Refresh
  /\ UNCHANGED <<server, store, confirming, unheard, early, acts>>

Next ==
  \/ OtherUser \/ HandleSyncAccount
  \/ ServeAccounts \/ ServeCreds \/ LoadAccountsSuccess \/ LoadCredsSuccess \/ LoadFail
  \/ (\E id \in Ids : Remove(id)) \/ Confirm \/ Cancel
  \/ ServeDelete \/ DeleteCloudStoreSuccess \/ DeleteCloudStoreFail \/ DeleteUnregisteredDone

Spec == Init /\ [][Next]_accountsVars

-----------------------------------------------------------------------------
(* Properties. *)

Lists == [phase : {"none", "sent", "served"}, ids : SUBSET Ids, used : SUBSET Ids]
Removals == [phase : {"none", "sent", "served"}, id : Ids \cup {""}, registered : BOOLEAN]

TypeOK ==
  /\ \A s \in {keystore, beacon, using, accounts, creds, inUse, unheard, early} : s \subseteq Ids
  /\ {listCall, credsCall} \subseteq Lists /\ {confirming, deletion} \subseteq Removals

\* An account that is listed and does not exist was deleted by another user, or with an
\* answer that was not heard, or when a list under way had it, or just now.
ListedForReason ==
  accounts \ keystore \subseteq unheard \cup early
    \cup {id \in Ids : deletion.phase = "served" /\ deletion.id = id}
=============================================================================

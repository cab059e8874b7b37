----------------------------- MODULE WebPagesProofs -----------------------------
(***************************************************************************)
(* Proofs about WebPages: its five invariants, for any constants that      *)
(* satisfy WebPagesConstants (the paths of SourceDirectory, the zones and  *)
(* the roles of Session are those WebPages gives).                         *)
(*                                                                         *)
(* Every part has an inductive invariant of its own, which holds whichever *)
(* part is at work:                                                        *)
(*   AccountsInv   accounts that are gone were deleted for a reason        *)
(*   ClusterInv    what is paired, submitted or browsed was defined        *)
(*   SessionInv    one clock, and the menu of the user's roles             *)
(*   ToastInv      a message with a link has its error                     *)
(*   RequestInv    the newest of the calls that replace one another, the   *)
(*                 order of the queue, and what observers are told         *)
(*   AccountInv    a success is of keys found valid, a name without an     *)
(*                 error is free, what saves waits for its own call        *)
(*   DirectoryInv  a field at rest is shown by the browser, whose listing  *)
(*                 is the last or under way                                *)
(*   PairingInv    what can be chosen may be paired, and no list comes     *)
(*                 while a pair is made                                    *)
(***************************************************************************)
EXTENDS WebPages, FiniteSetTheorems, SequenceTheorems, TLAPS

\* A step of the pages is one of the part at work, and no other changes.
LEMMA PartSteps ==
  ASSUME [Next]_vars
  PROVE  /\ UNCHANGED part
         /\ [Pairings!Next]_pairingVars /\ [CloudAccount!Next]_accountVars
         /\ [CloudAccounts!Next]_accountsVars /\ [Directory!Next]_directoryVars
         /\ [ListOfClusters!Next]_clusterVars /\ [Session!Next]_sessionVars
         /\ [Toasts!Next]_toastVars /\ [Requests!Next]_requestVars
<1>. USE DEF AtWork, PairingsAtWork, AccountAtWork, AccountsAtWork, DirectoryAtWork, ClustersAtWork,
     SessionAtWork, ToastsAtWork, RequestsAtWork
<1>1. CASE UNCHANGED vars
  BY <1>1 DEF vars
<1>2. CASE PairingsAtWork /\ Pairings!Next
  BY <1>2
<1>3. CASE AccountAtWork /\ CloudAccount!Next
  BY <1>3
<1>4. CASE AccountsAtWork /\ CloudAccounts!Next
  BY <1>4
<1>5. CASE DirectoryAtWork /\ Directory!Next
  BY <1>5
<1>6. CASE ClustersAtWork /\ ListOfClusters!Next
  BY <1>6
<1>7. CASE SessionAtWork /\ Session!Next
  BY <1>7
<1>8. CASE ToastsAtWork /\ Toasts!Next
  BY <1>8
<1>9. CASE RequestsAtWork /\ Requests!Next
  BY <1>9
<1>. QED  BY <1>1, <1>2, <1>3, <1>4, <1>5, <1>6, <1>7, <1>8, <1>9 DEF Next

-----------------------------------------------------------------------------
(* The page of cloud accounts. *)

\* Deletions under way.
Removals == [phase : {"sent", "served"}, id : Names, registered : BOOLEAN]

ServedDeletion ==
  {id \in Names : deletion.phase = "served" /\ deletion.registered /\ deletion.id = id}

AccountsTypes ==
  /\ \A s \in {keystore, beacon, using, accounts, creds, inUse, unheard, early} : s \subseteq Names
  /\ listCall \in CloudAccounts!Lists /\ credsCall \in CloudAccounts!Lists
  /\ deletion \in Removals \cup {CloudAccounts!NoDeletion}
  /\ confirmed \in [phase : {"sent"}, id : Names, registered : BOOLEAN]
                     \cup {CloudAccounts!NoDeletion}

\* An account that is listed, or in an answer under way, and does not exist was deleted by
\* another user, or unheard, or early, or by the call whose answer is still to come.
AccountsInv ==
  /\ AccountsTypes
  /\ accounts \ keystore \subseteq unheard \cup early \cup ServedDeletion
  /\ listCall.ids \ keystore \subseteq unheard \cup early

\* What is no list, a list that was asked for, and no deletion.
LEMMA ListCalls ==
  /\ CloudAccounts!NoList \in CloudAccounts!Lists /\ CloudAccounts!NoList.ids = {}
  /\ CloudAccounts!Asked \in CloudAccounts!Lists /\ CloudAccounts!Asked.ids = {}
  /\ CloudAccounts!NoDeletion.phase = "none"
  BY DEF CloudAccounts!NoList, CloudAccounts!Asked, CloudAccounts!Lists, CloudAccounts!NoDeletion

\* The invariant of the page of accounts holds at first.
LEMMA AccountsInvStarts ==
  ASSUME Init
  PROVE  AccountsInv
  BY ListCalls DEF Init, CloudAccounts!Init, AccountsInv, AccountsTypes, ServedDeletion

\* Every step of the page of accounts keeps its invariant.
LEMMA AccountsInvKept ==
  ASSUME AccountsInv, [CloudAccounts!Next]_accountsVars
  PROVE  AccountsInv'
<1>. USE ListCalls DEF CloudAccounts!server, CloudAccounts!store, CloudAccounts!Act
<1>1. CASE UNCHANGED accountsVars
  BY <1>1 DEF accountsVars, AccountsInv, AccountsTypes, ServedDeletion
<1>2. CASE CloudAccounts!OtherUser
  <2>1. PICK id \in Names :
          \/ /\ keystore' = keystore \cup {id} /\ beacon' = beacon \cup {id}
             /\ UNCHANGED <<using, unheard>>
          \/ /\ keystore' = keystore \ {id} /\ unheard' = unheard \cup {id}
             /\ beacon' \in {beacon, beacon \ {id}} /\ UNCHANGED using
          \/ /\ using' = IF id \in using THEN using \ {id} ELSE using \cup {id}
             /\ UNCHANGED <<keystore, beacon, unheard>>
    BY <1>2 DEF CloudAccounts!OtherUser
  <2>2. UNCHANGED <<accounts, creds, inUse, listCall, credsCall, confirmed, deletion, early>>
    BY <1>2 DEF CloudAccounts!OtherUser
  <2>. QED  BY <2>1, <2>2 DEF AccountsInv, AccountsTypes, ServedDeletion
<1>3. CASE CloudAccounts!HandleSyncAccount
  BY <1>3 DEF CloudAccounts!HandleSyncAccount, CloudAccounts!Refresh, AccountsInv, AccountsTypes,
     ServedDeletion
<1>4. CASE CloudAccounts!ServeAccounts \/ CloudAccounts!ServeCreds
  BY <1>4 DEF CloudAccounts!ServeAccounts, CloudAccounts!ServeCreds, CloudAccounts!Answered,
     CloudAccounts!Lists, AccountsInv, AccountsTypes, ServedDeletion
<1>5. CASE CloudAccounts!LoadAccountsSuccess \/ CloudAccounts!LoadCredsSuccess
             \/ CloudAccounts!LoadFail
  BY <1>5 DEF CloudAccounts!LoadAccountsSuccess, CloudAccounts!LoadCredsSuccess,
     CloudAccounts!LoadFail, CloudAccounts!Lists, AccountsInv, AccountsTypes, ServedDeletion
<1>6. ASSUME NEW id \in Names, CloudAccounts!Remove(id)
      PROVE  AccountsInv'
  BY <1>6 DEF CloudAccounts!Remove, AccountsInv, AccountsTypes, ServedDeletion
<1>7. CASE CloudAccounts!Confirm
  BY <1>7 DEF CloudAccounts!Confirm, AccountsInv, AccountsTypes, ServedDeletion, Removals
<1>8. CASE CloudAccounts!Cancel
  BY <1>8 DEF CloudAccounts!Cancel, AccountsInv, AccountsTypes, ServedDeletion
<1>9. CASE CloudAccounts!ServeDelete
  BY <1>9 DEF CloudAccounts!ServeDelete, CloudAccounts!Lists, AccountsInv, AccountsTypes,
     ServedDeletion, Removals
<1>10. CASE CloudAccounts!DeleteCloudStoreSuccess \/ CloudAccounts!DeleteCloudStoreFail
  BY <1>10 DEF CloudAccounts!DeleteCloudStoreSuccess, CloudAccounts!DeleteCloudStoreFail,
     AccountsInv, AccountsTypes, ServedDeletion, Removals
<1>11. CASE CloudAccounts!DeleteUnregisteredDone
  BY <1>11 DEF CloudAccounts!DeleteUnregisteredDone, CloudAccounts!Refresh, AccountsInv,
     AccountsTypes, ServedDeletion, Removals
<1>. QED  BY <1>1, <1>2, <1>3, <1>4, <1>5, <1>6, <1>7, <1>8, <1>9, <1>10, <1>11
          DEF CloudAccounts!Next

\* The invariant of the page of accounts gives its types and its property.
LEMMA AccountsFit ==
  ASSUME AccountsInv
  PROVE  CloudAccounts!ListedForReason /\ CloudAccounts!TypeOK
<1>1. CloudAccounts!ListedForReason
  BY DEF AccountsInv, ServedDeletion, CloudAccounts!ListedForReason
<1>2. CloudAccounts!NoDeletion \in CloudAccounts!Removals
  BY DEF CloudAccounts!Removals, CloudAccounts!NoDeletion
<1>3. Removals \subseteq CloudAccounts!Removals
  BY DEF Removals, CloudAccounts!Removals
<1>4. [phase : {"sent"}, id : Names, registered : BOOLEAN] \subseteq CloudAccounts!Removals
  BY DEF CloudAccounts!Removals
<1>. QED  BY <1>1, <1>2, <1>3, <1>4 DEF AccountsInv, AccountsTypes, CloudAccounts!TypeOK

-----------------------------------------------------------------------------
(* The list of clusters. *)

ListedPairs == {{key[1], key[2]} : key \in ListOfClusters!PairKeys}

ClusterTypes ==
  /\ paired \subseteq ListedPairs /\ defined \subseteq everDefined
  /\ pairKeys \subseteq ListOfClusters!PairKeys /\ listedClusters \in {{}, ListClusters}
  /\ pending \subseteq ListOfClusters!Loads \cup {"elsewhere"}
  /\ submitted \in [DOMAIN submitted -> BOOLEAN]
  /\ DOMAIN submitted \subseteq ListClusters /\ posting \subseteq DOMAIN submitted
  /\ opened \subseteq ListClusters /\ leadsTo \in {"", "elsewhere", "pairing", "policy"}

\* What has a pair, on the server or in the store, what was submitted and what is browsed
\* has been defined.
ClusterInv ==
  /\ ClusterTypes
  /\ \A pair \in paired : pair \subseteq everDefined
  /\ \A key \in pairKeys : {key[1], key[2]} \subseteq everDefined
  /\ \A c \in DOMAIN submitted : submitted[c] => c \in everDefined
  /\ opened \subseteq everDefined

\* The module of the list counts as the library does.
LEMMA PairsCounted ==
  ASSUME NEW S
  PROVE  /\ ListOfClusters!Cardinality(S) = Cardinality(S)
         /\ ListOfClusters!IsFiniteSet(S) <=> IsFiniteSet(S)
<1>1. ListOfClusters!Cardinality(S) = Cardinality(S)
  BY Zenon DEF ListOfClusters!Cardinality, Cardinality
<1>2. ListOfClusters!IsFiniteSet(S) <=> IsFiniteSet(S)
  BY Zenon DEF ListOfClusters!IsFiniteSet, IsFiniteSet
<1>. QED  BY <1>1, <1>2

\* A cluster whose count is positive is in a pair.
LEMMA CountedHasPair ==
  ASSUME NEW keys, NEW c, ListOfClusters!CountIn(keys, c) > 0
  PROVE  \E key \in keys : c \in {key[1], key[2]}
<1>. DEFINE own == {key \in keys : c \in {key[1], key[2]}}
<1>1. ListOfClusters!CountIn(keys, c) = Cardinality(own)
  BY PairsCounted DEF ListOfClusters!CountIn
<1>2. own # {}
  BY <1>1, FS_EmptySet
<1>. QED  BY <1>2

\* The invariant of the list of clusters holds at first.
LEMMA ClusterInvStarts ==
  ASSUME Init
  PROVE  ClusterInv
<1>0. {<<1, 2>>} \subseteq ListOfClusters!PairKeys
  BY WebPagesConstants DEF ListOfClusters!ClusterListConstants
<1>1. ClusterTypes
  <2>1. paired \subseteq ListedPairs
    BY <1>0 DEF Init, ListOfClusters!Init, ListedPairs
  <2>2. submitted \in [DOMAIN submitted -> BOOLEAN] /\ DOMAIN submitted = {}
    BY DEF Init, ListOfClusters!Init, ListOfClusters!NoneSubmitted
  <2>. QED  BY <2>1, <2>2 DEF Init, ListOfClusters!Init, ClusterTypes
<1>2. \A key \in {<<1, 2>>} : {key[1], key[2]} \subseteq ListOfClusters!Ends({<<1, 2>>})
  BY DEF ListOfClusters!Ends
<1>. QED
  BY <1>1, <1>2 DEF Init, ListOfClusters!Init, ListOfClusters!NoneSubmitted, ClusterInv

\* What came of a load keeps the invariant.
LEMMA LoadedKeepsInv ==
  ASSUME ClusterInv, NEW load, NEW clusters \in {{}, ListClusters},
         NEW keys \in SUBSET ListOfClusters!PairKeys,
         \A key \in keys : {key[1], key[2]} \subseteq everDefined,
         ListOfClusters!Loaded(load, clusters, keys)
  PROVE  ClusterInv'
<1>1. /\ pending' = pending \ {load} /\ listedClusters' = clusters /\ pairKeys' = keys
      /\ UNCHANGED <<paired, defined, everDefined, hasAccounts, opened, leadsTo, turns>>
      /\ \/ UNCHANGED <<submitted, posting>>
         \/ ListOfClusters!SubmitUnpaired(clusters, keys)
  BY DEF ListOfClusters!Loaded, ListOfClusters!serverVars
<1>2. CASE UNCHANGED <<submitted, posting>>
  BY <1>1, <1>2 DEF ClusterInv, ClusterTypes
<1>3. CASE ListOfClusters!SubmitUnpaired(clusters, keys)
  <2>1. /\ submitted' = [c \in clusters |-> ListOfClusters!CountIn(keys, c) > 0]
        /\ posting' \subseteq clusters
    BY <1>3 DEF ListOfClusters!SubmitUnpaired
  <2>2. ASSUME NEW c \in clusters, submitted'[c]
        PROVE  c \in everDefined
    <3>1. submitted'[c] = (ListOfClusters!CountIn(keys, c) > 0)
      BY <2>1, Zenon
    <3>2. ListOfClusters!CountIn(keys, c) > 0
      BY <2>2, <3>1, Zenon
    <3>. QED  BY <3>2, CountedHasPair
  <2>3. DOMAIN submitted' = clusters /\ submitted' \in [clusters -> BOOLEAN]
    <3>. DEFINE counted(c) == ListOfClusters!CountIn(keys, c) > 0
    <3>1. \A c \in clusters : counted(c) \in BOOLEAN
      OBVIOUS
    <3>2. submitted' = [c \in clusters |-> counted(c)]
      BY <2>1
    <3>. HIDE DEF counted
    <3>. QED  BY <3>1, <3>2, Zenon
  <2>. QED  BY <1>1, <2>1, <2>2, <2>3 DEF ClusterInv, ClusterTypes
<1>. QED  BY <1>1, <1>2, <1>3

\* Every step of the list of clusters keeps its invariant.
LEMMA ClusterInvKept ==
  ASSUME ClusterInv, [ListOfClusters!Next]_clusterVars
  PROVE  ClusterInv'
<1>. USE DEF ListOfClusters!serverVars, ListOfClusters!storeVars, ListOfClusters!pageVars
<1>0. /\ pairKeys \in SUBSET ListOfClusters!PairKeys /\ listedClusters \in {{}, ListClusters}
      /\ ListClusters \in {{}, ListClusters}
      /\ \A key \in pairKeys : {key[1], key[2]} \subseteq everDefined
      /\ \A pair \in paired : pair \subseteq everDefined
  BY DEF ClusterInv, ClusterTypes
<1>1. CASE UNCHANGED clusterVars
  BY <1>1 DEF clusterVars, ClusterInv, ClusterTypes
<1>2. ASSUME NEW key \in ListOfClusters!PairKeys, ListOfClusters!Happen({key[1], key[2]})
      PROVE  ClusterInv'
  <2>. DEFINE pair == {key[1], key[2]}
  <2>1. pair \in ListedPairs
    BY DEF ListedPairs
  <2>2. /\ paired' \subseteq paired \cup {pair}
        /\ pair \in paired \/ defined' = defined \cup pair
        /\ defined' \subseteq everDefined' /\ everDefined' = everDefined \cup defined'
        /\ UNCHANGED <<listedClusters, pairKeys, hasAccounts, pending, submitted, posting, opened,
                       leadsTo>>
    BY <1>2 DEF ListOfClusters!Happen
  <2>3. ClusterTypes'
    BY <2>1, <2>2 DEF ClusterInv, ClusterTypes
  <2>4. \A other \in paired' : other \subseteq everDefined'
    BY <2>2 DEF ClusterInv
  <2>. QED  BY <2>2, <2>3, <2>4 DEF ClusterInv
<1>3. CASE ListOfClusters!LoadClustersSuccess
  <2>1. ListOfClusters!Loaded("clusters", ListClusters, pairKeys)
    BY <1>3 DEF ListOfClusters!LoadClustersSuccess
  <2>. QED  BY <1>0, <2>1, LoadedKeepsInv
<1>4. CASE ListOfClusters!LoadPairingsSuccess
  <2>1. PICK keys \in ListOfClusters!Told :
          ListOfClusters!Loaded("pairs", listedClusters, pairKeys \cup keys)
    BY <1>4 DEF ListOfClusters!LoadPairingsSuccess
  <2>2. keys \subseteq ListOfClusters!PairKeys /\ \A key \in keys : {key[1], key[2]} \in paired
    BY DEF ListOfClusters!Told
  <2>3. /\ pairKeys \cup keys \in SUBSET ListOfClusters!PairKeys
        /\ \A key \in pairKeys \cup keys : {key[1], key[2]} \subseteq everDefined
    BY <1>0, <2>2
  <2>4. listedClusters \in {{}, ListClusters}
    BY <1>0
  <2>. HIDE DEF ListOfClusters!serverVars, ListOfClusters!storeVars, ListOfClusters!pageVars
  <2>. QED  BY <2>1, <2>3, <2>4, LoadedKeepsInv
<1>5. ASSUME NEW load, ListOfClusters!LoadEnds(load)
      PROVE  ClusterInv'
  BY <1>0, <1>5, LoadedKeepsInv DEF ListOfClusters!LoadEnds
<1>6. CASE ListOfClusters!LoadAccountsSuccess
  BY <1>6 DEF ListOfClusters!LoadAccountsSuccess, ClusterInv, ClusterTypes
<1>7. ASSUME NEW c \in ListClusters, NEW success \in BOOLEAN,
             ListOfClusters!SubmitClusterEnds(c, success)
      PROVE  ClusterInv'
  <2>1. /\ c \in DOMAIN submitted /\ posting' = posting \ {c}
        /\ success => c \in defined'
        /\ defined' \subseteq everDefined' /\ everDefined \subseteq everDefined'
        /\ UNCHANGED <<paired, listedClusters, pairKeys, hasAccounts, pending, opened, leadsTo>>
    BY <1>7 DEF ListOfClusters!SubmitClusterEnds, ClusterInv, ClusterTypes
  <2>2. submitted' = [submitted EXCEPT ![c] = success]
    BY <1>7 DEF ListOfClusters!SubmitClusterEnds, ListOfClusters!UpdateSubmittedCluster
  <2>3. /\ DOMAIN submitted' = DOMAIN submitted /\ submitted' \in [DOMAIN submitted -> BOOLEAN]
        /\ \A d \in DOMAIN submitted : d = c \/ submitted'[d] = submitted[d]
        /\ submitted'[c] = success
    BY <2>1, <2>2, Zenon DEF ClusterInv, ClusterTypes
  <2>4. ClusterTypes'
    BY <2>1, <2>3 DEF ClusterInv, ClusterTypes
  <2>. QED  BY <2>1, <2>3, <2>4 DEF ClusterInv
<1>8. ASSUME NEW c \in ListClusters, ListOfClusters!ToggleClusterDetails(c)
      PROVE  ClusterInv'
  BY <1>8 DEF ListOfClusters!ToggleClusterDetails, ListOfClusters!IsHDFSDisabled, ClusterInv,
     ClusterTypes
<1>9. ASSUME NEW to \in {"elsewhere", "pairing", "policy"}, ListOfClusters!Leave(to)
      PROVE  ClusterInv'
  BY <1>9 DEF ListOfClusters!Leave, ListOfClusters!NoneSubmitted, ClusterInv, ClusterTypes
<1>10. CASE ListOfClusters!Enter
  BY <1>10 DEF ListOfClusters!Enter, ListOfClusters!Loads, ClusterInv, ClusterTypes
<1>11. CASE ListOfClusters!HandleSelectedAction
  BY <1>9, <1>11 DEF ListOfClusters!HandleSelectedAction
<1>. QED  BY <1>1, <1>2, <1>3, <1>4, <1>5, <1>6, <1>7, <1>8, <1>9, <1>10, <1>11
          DEF ListOfClusters!Next

\* A cluster lacks a pair with another one if it is in fewer pairs than there are others.
LEMMA LacksPair ==
  ASSUME NEW keys \in SUBSET ListOfClusters!PairKeys, NEW c \in ListClusters,
         \A key \in keys : <<key[2], key[1]>> \notin keys
  PROVE  ListOfClusters!CountIn(keys, c) # Cardinality(ListClusters) - 1
           <=> \E d \in ListClusters : c # d /\ {<<c, d>>, <<d, c>>} \cap keys = {}
<1>. DEFINE own == {key \in keys : c \in {key[1], key[2]}}
            rest == ListClusters \ {c}
            other == [key \in own |-> IF key[1] = c THEN key[2] ELSE key[1]]
<1>0. IsFiniteSet(ListClusters)
  BY PairsCounted, WebPagesConstants DEF ListOfClusters!ClusterListConstants
<1>1. IsFiniteSet(rest) /\ Cardinality(rest) = Cardinality(ListClusters) - 1
  BY <1>0, FS_RemoveElement
<1>2. \A key \in own : /\ key = <<key[1], key[2]>> /\ key[1] \in ListClusters
                       /\ key[2] \in ListClusters /\ key[1] # key[2]
  BY DEF ListOfClusters!PairKeys
<1>3. other \in Injection(own, rest)
  <2>1. other \in [own -> rest]
    BY <1>2
  <2>2. ASSUME NEW a \in own, NEW b \in own, other[a] = other[b]
        PROVE  a = b
    BY <1>2, <2>2
  <2>. QED  BY <2>1, <2>2 DEF Injection, IsInjective
<1>4. Cardinality(own) = Cardinality(rest) <=> other \in Surjection(own, rest)
  BY <1>1, <1>3, FS_Injection
<1>5. other \in Surjection(own, rest) <=> \A d \in rest : \E key \in own : other[key] = d
  BY <1>3 DEF Surjection, Injection
<1>6. \A d \in rest : (\E key \in own : other[key] = d)
                          <=> {<<c, d>>, <<d, c>>} \cap keys # {}
  BY <1>2
<1>7. ListOfClusters!CountIn(keys, c) = Cardinality(own)
  BY PairsCounted DEF ListOfClusters!CountIn
<1>. QED  BY <1>1, <1>4, <1>5, <1>6, <1>7

\* The invariant of the list of clusters gives its types and its properties.
LEMMA ClustersFit ==
  ASSUME ClusterInv
  PROVE  /\ ListOfClusters!BrowsedDefined /\ ListOfClusters!PairsLeft
         /\ ListOfClusters!TypeOK
<1>1. ListOfClusters!BrowsedDefined
  BY DEF ClusterInv, ListOfClusters!BrowsedDefined
<1>2. ListOfClusters!TypeOK
  BY DEF ClusterInv, ClusterTypes, ListedPairs, ListOfClusters!TypeOK
<1>3. ASSUME \A key \in pairKeys : <<key[2], key[1]>> \notin pairKeys
      PROVE  ListOfClusters!CanAddPairing <=>
               \E a, b \in listedClusters : a # b /\ {<<a, b>>, <<b, a>>} \cap pairKeys = {}
  <2>1. CASE listedClusters = {}
    BY <2>1 DEF ListOfClusters!CanAddPairing
  <2>2. CASE listedClusters = ListClusters
    <3>1. \A c \in ListClusters :
            ListOfClusters!CountIn(pairKeys, c) # Cardinality(ListClusters) - 1
              <=> \E d \in ListClusters : c # d /\ {<<c, d>>, <<d, c>>} \cap pairKeys = {}
      BY <1>3, LacksPair DEF ClusterInv, ClusterTypes
    <3>2. ASSUME NEW a \in ListClusters, NEW b \in ListClusters, a # b
          PROVE  Cardinality(ListClusters) > 1
      <4>1. IsFiniteSet(ListClusters)
        BY PairsCounted, WebPagesConstants DEF ListOfClusters!ClusterListConstants
      <4>2. IsFiniteSet({a, b}) /\ Cardinality({a, b}) = 2
        <5>1. {a, b} = {a} \cup {b} /\ b \notin {a}
          BY <3>2
        <5>2. IsFiniteSet({a}) /\ Cardinality({a}) = 1
          BY FS_Singleton
        <5>3. Cardinality({a} \cup {b}) = Cardinality({a}) + 1 /\ IsFiniteSet({a} \cup {b})
          BY <5>1, <5>2, FS_AddElement
        <5>. QED  BY <5>1, <5>2, <5>3
      <4>3. Cardinality({a, b}) <= Cardinality(ListClusters) /\ Cardinality(ListClusters) \in Nat
        BY <4>1, FS_Subset, FS_CardinalityType
      <4>. QED  BY <4>2, <4>3
    <3>3. ListOfClusters!CanAddPairing <=>
            /\ Cardinality(ListClusters) > 1
            /\ \E c \in ListClusters :
                 ListOfClusters!CountIn(pairKeys, c) # Cardinality(ListClusters) - 1
      BY <2>2, PairsCounted DEF ListOfClusters!CanAddPairing
    <3>. QED  BY <2>2, <3>1, <3>2, <3>3
  <2>. QED  BY <2>1, <2>2 DEF ClusterInv, ClusterTypes
<1>. QED  BY <1>1, <1>2, <1>3 DEF ListOfClusters!PairsLeft

-----------------------------------------------------------------------------
(* The session of a user. *)

SessionInv ==
  /\ Session!TypeOK
  /\ Session!OneClock
  /\ window = "app" => userTimezoneIndex \in Session!Zones
  /\ personas = IF user = Session!NoUser THEN {} ELSE Session!PersonaDetails(UserRoles[user])

\* The menu of a user's roles.
LEMMA PersonasAre ==
  ASSUME NEW roles \in SUBSET Session!ROLES
  PROVE  /\ \A e, f \in Session!PersonaDetails(roles) : e.url = f.url => e = f
         /\ Session!Entry("Data Lifecycle Manager", "") \in Session!PersonaDetails(roles)
              <=> "INFRAADMIN" \in roles
<1>. DEFINE admin == Session!Entry("DataPlane Admin", "/infra")
            infra == Session!Entry("Cluster Admin", "/infra")
            dlm == Session!Entry("Data Lifecycle Manager", "")
            steward == Session!Entry("Data Steward", "/datasteward/collections")
            user1 == Session!Entry("Analytics", "/workspace")
<1>1. /\ admin.url = "/infra" /\ infra.url = "/infra" /\ dlm.url = ""
      /\ steward.url = "/datasteward/collections" /\ user1.url = "/workspace"
      /\ admin # infra
  BY DEF Session!Entry
<1>2. \A e : e \in Session!EveryRole(roles) <=>
               \/ "SUPERADMIN" \in roles /\ e = admin
               \/ "INFRAADMIN" \in roles /\ e \in {infra, dlm}
               \/ "CURATOR" \in roles /\ e = steward
               \/ "USER" \in roles /\ e = user1
  <2>1. /\ Session!PersonaMap["SUPERADMIN"] = {admin}
        /\ Session!PersonaMap["INFRAADMIN"] = {infra, dlm}
        /\ Session!PersonaMap["CURATOR"] = {steward}
        /\ Session!PersonaMap["USER"] = {user1}
    BY DEF Session!PersonaMap
  <2>2. \A e : e \in Session!EveryRole(roles) <=> \E r \in roles : e \in Session!PersonaMap[r]
    BY DEF Session!EveryRole
  <2>. HIDE DEF admin, infra, dlm, steward, user1
  <2>3. \A r \in roles : r \in {"SUPERADMIN", "INFRAADMIN", "CURATOR", "USER"}
    BY DEF Session!ROLES
  <2>. QED  BY <2>1, <2>2, <2>3
<1>3. \A e : e \in Session!PersonaDetails(roles) <=>
               /\ e \in Session!EveryRole(roles)
               /\ ~(e = infra /\ {"SUPERADMIN", "INFRAADMIN"} \subseteq roles)
  BY DEF Session!PersonaDetails
<1>. HIDE DEF admin, infra, dlm, steward, user1
<1>4. ASSUME NEW e \in Session!PersonaDetails(roles), NEW f \in Session!PersonaDetails(roles),
             e.url = f.url
      PROVE  e = f
  <2>1. {e, f} \subseteq {admin, infra, dlm, steward, user1}
    BY <1>2, <1>3
  <2>2. admin \notin {infra, dlm, steward, user1} /\ infra \notin {dlm, steward, user1}
    BY <1>1
  <2>3. admin \in Session!PersonaDetails(roles) => "SUPERADMIN" \in roles
    BY <1>2, <1>3, <2>2
  <2>4. infra \in Session!PersonaDetails(roles) => "INFRAADMIN" \in roles
    BY <1>2, <1>3, <2>2
  <2>5. ~(admin \in Session!PersonaDetails(roles) /\ infra \in Session!PersonaDetails(roles))
    BY <1>3, <2>3, <2>4
  <2>6. e \in {admin, infra} => f \in {admin, infra}
    BY <1>1, <1>4, <2>1
  <2>7. e = dlm => f = dlm
    BY <1>1, <1>4, <2>1
  <2>8. e = steward => f = steward
    BY <1>1, <1>4, <2>1
  <2>9. e = user1 => f = user1
    BY <1>1, <1>4, <2>1
  <2>. QED  BY <2>1, <2>5, <2>6, <2>7, <2>8, <2>9
<1>5. dlm \in Session!PersonaDetails(roles) <=> "INFRAADMIN" \in roles
  BY <1>1, <1>2, <1>3
<1>. QED  BY <1>4, <1>5 DEF dlm

\* The invariant of the session holds at first.
LEMMA SessionInvStarts ==
  ASSUME Init
  PROVE  SessionInv
  BY DEF Init, Session!Init, Session!TypeOK, Session!OneClock, Session!NoUser, SessionInv

\* Every step of the session keeps its invariant.
LEMMA SessionInvKept ==
  ASSUME SessionInv, [Session!Next]_sessionVars
  PROVE  SessionInv'
<1>. USE DEF Session!zoneVars, Session!userVars
<1>0. Session!NoUser \notin DOMAIN UserRoles /\ "" \notin Session!Zones
  BY WebPagesConstants DEF Session!SessionConstants, Session!NoUser, Session!Zones, UserRoles
<1>1. CASE UNCHANGED sessionVars
  BY <1>1 DEF sessionVars, SessionInv, Session!TypeOK, Session!OneClock
<1>2. CASE Session!Load
  BY <1>2 DEF Session!Load, SessionInv, Session!TypeOK, Session!OneClock
<1>3. CASE Session!Transform
  BY <1>3 DEF Session!Transform, SessionInv, Session!TypeOK, Session!OneClock
<1>4. ASSUME NEW zone \in Session!Zones, Session!SaveUserTimezone(zone)
      PROVE  SessionInv'
  BY <1>4 DEF Session!SaveUserTimezone, Session!SetTimezone, SessionInv, Session!TypeOK,
     Session!OneClock
<1>5. ASSUME NEW zone \in Session!Zones, Session!OtherTab(zone)
      PROVE  SessionInv'
  BY <1>5 DEF Session!OtherTab, SessionInv, Session!TypeOK, Session!OneClock
<1>6. ASSUME NEW u \in DOMAIN UserRoles, Session!LoggedIn(u)
      PROVE  SessionInv'
  BY <1>0, <1>6 DEF Session!LoggedIn, SessionInv, Session!TypeOK, Session!OneClock
<1>7. CASE Session!LoggedInUnknown \/ Session!Logout
  BY <1>7 DEF Session!LoggedInUnknown, Session!Logout, Session!LogoutUser, SessionInv,
     Session!TypeOK, Session!OneClock
<1>8. ASSUME NEW status \in {401, 403}, Session!Refused(status)
      PROVE  SessionInv'
  BY <1>8 DEF Session!Refused, Session!Redirected, SessionInv, Session!TypeOK, Session!OneClock
<1>9. CASE Session!IdentityFailed \/ Session!LogoutAnswered
  BY <1>9 DEF Session!IdentityFailed, Session!LogoutAnswered, SessionInv, Session!TypeOK,
     Session!OneClock
<1>. QED  BY <1>1, <1>2, <1>3, <1>4, <1>5, <1>6, <1>7, <1>8, <1>9 DEF Session!Next

\* The invariant of the session gives its types and its properties.
LEMMA SessionFits ==
  ASSUME SessionInv
  PROVE  Session!OneClock /\ Session!PersonasFit /\ Session!TypeOK
<1>1. CASE user = Session!NoUser
  BY <1>1 DEF SessionInv, Session!PersonasFit
<1>2. CASE user # Session!NoUser
  <2>1. user \in DOMAIN UserRoles
    BY <1>2 DEF SessionInv, Session!TypeOK
  <2>2. UserRoles[user] \in SUBSET Session!ROLES
    BY <2>1, WebPagesConstants DEF Session!SessionConstants
  <2>. QED  BY <1>2, <2>2, PersonasAre DEF SessionInv, Session!PersonasFit
<1>. QED  BY <1>1, <1>2

-----------------------------------------------------------------------------
(* What the user is told of requests. *)

\* Every request is on the screen once at most, and what is on the screen has its text in
\* the store; that of the dialog is off the screen.
ToastInv ==
  /\ ended \in Seq(Toasts!Outcomes) /\ Len(ended) <= MaxToasts
  /\ toasts \in Seq(1..Len(ended)) /\ Len(toasts) <= MaxStack
  /\ \A i, j \in 1..Len(toasts) : toasts[i] = toasts[j] => i = j
  /\ DOMAIN errors \subseteq 1..Len(ended)
  /\ \A i \in 1..Len(toasts) : ended[toasts[i]].content = "MODAL_LINK" =>
       toasts[i] \in DOMAIN errors /\ errors[toasts[i]] = ended[toasts[i]].body
  /\ activeErrorId \in 0..Len(ended)
  /\ activeErrorId # 0 =>
       activeErrorId \in DOMAIN errors /\ \A i \in 1..Len(toasts) : toasts[i] # activeErrorId
  /\ listening \in BOOLEAN

\* A sequence without one of its elements.
LEMMA RemovedAt ==
  ASSUME NEW S, NEW s \in Seq(S), NEW i \in 1..Len(s)
  PROVE  /\ Toasts!RemoveAt(s, i) \in Seq(S)
         /\ Len(Toasts!RemoveAt(s, i)) = Len(s) - 1
         /\ \A j \in 1..(Len(s) - 1) :
              Toasts!RemoveAt(s, i)[j] = IF j < i THEN s[j] ELSE s[j + 1]
<1>. DEFINE before == SubSeq(s, 1, i - 1)
            after == SubSeq(s, i + 1, Len(s))
<1>1. /\ before \in Seq(S) /\ Len(before) = i - 1
      /\ \A j \in 1..(i - 1) : before[j] = s[j]
  <2>1. \A j \in 1..(i - 1) : s[j] \in S
    OBVIOUS
  <2>. QED  BY <2>1, SubSeqProperties
<1>2. /\ after \in Seq(S) /\ Len(after) = Len(s) - i
      /\ \A j \in 1..(Len(s) - i) : after[j] = s[j + i]
  <2>1. \A j \in (i + 1)..Len(s) : s[j] \in S
    OBVIOUS
  <2>2. /\ after \in Seq(S)
        /\ Len(after) = IF i + 1 <= Len(s) THEN Len(s) - (i + 1) + 1 ELSE 0
        /\ \A j \in 1..(Len(s) - (i + 1) + 1) : after[j] = s[(i + 1) + j - 1]
    BY <2>1, SubSeqProperties
  <2>. HIDE DEF after
  <2>. QED  BY <2>2
<1>. HIDE DEF before, after
<1>3. /\ before \o after \in Seq(S) /\ Len(before \o after) = Len(before) + Len(after)
      /\ \A j \in 1..(Len(before) + Len(after)) :
           (before \o after)[j] = IF j <= Len(before) THEN before[j] ELSE after[j - Len(before)]
  BY <1>1, <1>2, ConcatProperties
<1>. DEFINE both == before \o after
<1>4. Toasts!RemoveAt(s, i) = both
  BY DEF Toasts!RemoveAt, before, after
<1>5. both \in Seq(S) /\ Len(both) = Len(s) - 1
  BY <1>1, <1>2, <1>3
<1>6. ASSUME NEW j \in 1..(Len(s) - 1)
      PROVE  both[j] = IF j < i THEN s[j] ELSE s[j + 1]
  <2>1. both[j] = IF j <= i - 1 THEN before[j] ELSE after[j - (i - 1)]
    <3>1. Len(before) = i - 1 /\ j \in 1..(Len(before) + Len(after))
      BY <1>1, <1>2, <1>6
    <3>. QED  BY <1>3, <3>1
  <2>. HIDE DEF both
  <2>2. CASE j < i
    BY <1>1, <2>1, <2>2
  <2>3. CASE ~(j < i)
    <3>1. j - (i - 1) \in 1..(Len(s) - i) /\ j - (i - 1) + i = j + 1
      BY <2>3
    <3>. QED  BY <1>2, <2>1, <2>3, <3>1
  <2>. QED  BY <2>2, <2>3
<1>. HIDE DEF both
<1>. QED  BY <1>4, <1>5, <1>6

\* A message on top of the others, of which the oldest may go.
LEMMA StackedAre ==
  ASSUME NEW S, toasts \in Seq(S), Len(toasts) <= MaxStack, NEW id \in S
  PROVE  /\ Toasts!Stacked(id) \in Seq(S) /\ Len(Toasts!Stacked(id)) <= MaxStack
         /\ Toasts!Stacked(id)[1] = id
         /\ \A j \in 1..Len(Toasts!Stacked(id)) :
              j = 1 \/ (j - 1 \in 1..Len(toasts) /\ Toasts!Stacked(id)[j] = toasts[j - 1])
<1>. DEFINE rest == IF Len(toasts) < MaxStack THEN toasts ELSE SubSeq(toasts, 1, MaxStack - 1)
<1>0. MaxStack \in Nat \ {0}
  BY WebPagesConstants DEF Toasts!ToastsConstants
<1>1. /\ rest \in Seq(S) /\ Len(rest) < MaxStack /\ Len(rest) <= Len(toasts)
      /\ \A j \in 1..Len(rest) : rest[j] = toasts[j]
  <2>1. CASE Len(toasts) < MaxStack
    BY <2>1
  <2>2. CASE Len(toasts) = MaxStack
    <3>1. \A j \in 1..(MaxStack - 1) : toasts[j] \in S
      BY <1>0, <2>2
    <3>2. /\ SubSeq(toasts, 1, MaxStack - 1) \in Seq(S)
          /\ Len(SubSeq(toasts, 1, MaxStack - 1)) = MaxStack - 1
          /\ \A j \in 1..(MaxStack - 1) : SubSeq(toasts, 1, MaxStack - 1)[j] = toasts[j]
      BY <1>0, <3>1, SubSeqProperties
    <3>. QED  BY <1>0, <2>2, <3>2
  <2>. QED  BY <1>0, <2>1, <2>2
<1>. HIDE DEF rest
<1>2. /\ <<id>> \o rest \in Seq(S) /\ Len(<<id>> \o rest) = 1 + Len(rest)
      /\ \A j \in 1..(1 + Len(rest)) : (<<id>> \o rest)[j] = IF j <= 1 THEN id ELSE rest[j - 1]
  <2>1. <<id>> \in Seq(S) /\ Len(<<id>>) = 1 /\ <<id>>[1] = id
    OBVIOUS
  <2>. DEFINE first == <<id>>
  <2>. HIDE DEF first
  <2>2. /\ first \o rest \in Seq(S) /\ Len(first \o rest) = Len(first) + Len(rest)
        /\ \A j \in 1..(Len(first) + Len(rest)) :
             (first \o rest)[j] = IF j <= Len(first) THEN first[j] ELSE rest[j - Len(first)]
    BY <1>1, <2>1, ConcatProperties DEF first
  <2>. QED  BY <1>1, <2>1, <2>2 DEF first
<1>3. Toasts!Stacked(id) = <<id>> \o rest
  BY DEF Toasts!Stacked, rest
<1>. QED  BY <1>0, <1>1, <1>2, <1>3

\* The invariant of the messages holds at first.
LEMMA ToastInvStarts ==
  ASSUME Init
  PROVE  ToastInv
<1>1. /\ ended = <<>> /\ toasts = <<>> /\ DOMAIN errors = {} /\ activeErrorId = 0
      /\ listening = TRUE
  BY DEF Init, Toasts!Init
<1>2. MaxStack \in Nat \ {0} /\ MaxToasts \in Nat
  BY WebPagesConstants DEF Toasts!ToastsConstants
<1>3. Len(ended) = 0 /\ Len(toasts) = 0 /\ 1..Len(toasts) = {}
  BY <1>1
<1>4. ended \in Seq(Toasts!Outcomes) /\ toasts \in Seq(1..Len(ended))
  BY <1>1
<1>. QED  BY <1>1, <1>2, <1>3, <1>4 DEF ToastInv

\* A message that is closed keeps the invariant.
LEMMA ClosedKeepsInv ==
  ASSUME ToastInv, NEW i \in 1..Len(toasts), Toasts!Close(i), UNCHANGED <<ended, errors, listening>>,
         \/ UNCHANGED activeErrorId
         \/ activeErrorId' = toasts[i] /\ ended[toasts[i]].content = "MODAL_LINK"
  PROVE  ToastInv'
<1>. DEFINE place(j) == IF j < i THEN j ELSE j + 1
<1>0. /\ toasts \in Seq(1..Len(ended)) /\ Len(toasts) \in Nat
      /\ \A j, k \in 1..Len(toasts) : toasts[j] = toasts[k] => j = k
      /\ toasts[i] \in 1..Len(ended)
  BY DEF ToastInv
<1>1. /\ toasts' \in Seq(1..Len(ended)) /\ Len(toasts') = Len(toasts) - 1
      /\ \A j \in 1..Len(toasts') : /\ place(j) \in 1..Len(toasts) /\ place(j) # i
                                    /\ toasts'[j] = toasts[place(j)]
  <2>1. /\ toasts' \in Seq(1..Len(ended)) /\ Len(toasts') = Len(toasts) - 1
        /\ \A j \in 1..(Len(toasts) - 1) :
             toasts'[j] = IF j < i THEN toasts[j] ELSE toasts[j + 1]
    BY <1>0, RemovedAt DEF Toasts!Close
  <2>2. \A n \in Nat : i \in 1..n =>
          \A j \in 1..(n - 1) : place(j) \in 1..n /\ place(j) # i
    OBVIOUS
  <2>3. \A j \in 1..(Len(toasts) - 1) : place(j) \in 1..Len(toasts) /\ place(j) # i
    BY <1>0, <2>2
  <2>4. \A j \in 1..(Len(toasts) - 1) : toasts'[j] = toasts[place(j)]
    BY <2>1
  <2>. HIDE DEF place
  <2>. QED  BY <2>1, <2>3, <2>4
<1>2. \A j, k \in 1..Len(toasts') : toasts'[j] = toasts'[k] => j = k
  <2>1. \A j, k \in 1..Len(toasts') : place(j) = place(k) => j = k
    <3>1. i \in Nat /\ Len(toasts') \in Nat
      BY <1>0, <1>1
    <3>2. \A j, k \in Nat : place(j) = place(k) => j = k
      BY <3>1
    <3>. HIDE DEF place
    <3>. QED  BY <3>1, <3>2
  <2>. HIDE DEF place
  <2>2. ASSUME NEW j \in 1..Len(toasts'), NEW k \in 1..Len(toasts'), toasts'[j] = toasts'[k]
        PROVE  j = k
    <3>1. /\ place(j) \in 1..Len(toasts) /\ place(k) \in 1..Len(toasts)
          /\ toasts[place(j)] = toasts[place(k)]
      BY <1>1, <2>2
    <3>2. place(j) = place(k)
      BY <1>0, <3>1
    <3>. QED  BY <2>1, <3>2
  <2>. QED  BY <2>2
<1>. HIDE DEF place
<1>3. \A j \in 1..Len(toasts') : toasts'[j] # toasts[i]
  BY <1>0, <1>1
<1>4. \A j \in 1..Len(toasts') : \E k \in 1..Len(toasts) : toasts'[j] = toasts[k]
  BY <1>1
<1>5. /\ Len(toasts') <= MaxStack
      /\ \A j \in 1..Len(toasts') : ended[toasts'[j]].content = "MODAL_LINK" =>
           toasts'[j] \in DOMAIN errors /\ errors[toasts'[j]] = ended[toasts'[j]].body
  <2>1. Len(toasts') <= MaxStack
    BY <1>0, <1>1, WebPagesConstants DEF ToastInv, Toasts!ToastsConstants
  <2>. QED  BY <1>4, <2>1 DEF ToastInv
<1>6. activeErrorId' \in 0..Len(ended)
  BY <1>0 DEF ToastInv
<1>7. activeErrorId' # 0 => activeErrorId' \in DOMAIN errors
                          /\ \A j \in 1..Len(toasts') : toasts'[j] # activeErrorId'
  <2>1. CASE UNCHANGED activeErrorId
    BY <1>4, <2>1 DEF ToastInv
  <2>2. CASE activeErrorId' = toasts[i] /\ ended[toasts[i]].content = "MODAL_LINK"
    <3>1. toasts[i] \in DOMAIN errors
      BY <2>2 DEF ToastInv
    <3>. QED  BY <1>3, <2>2, <3>1
  <2>. QED  BY <2>1, <2>2
<1>. QED  BY <1>1, <1>2, <1>5, <1>6, <1>7 DEF ToastInv

\* Every step of the messages keeps their invariant.
LEMMA ToastInvKept ==
  ASSUME ToastInv, [Toasts!Next]_toastVars
  PROVE  ToastInv'
<1>1. CASE UNCHANGED toastVars
  BY <1>1 DEF toastVars, ToastInv
<1>2. ASSUME NEW outcome \in Toasts!Outcomes, Toasts!ShowNotification(outcome)
      PROVE  ToastInv'
  <2>. DEFINE id == Len(ended) + 1
  <2>1. /\ ended' \in Seq(Toasts!Outcomes) /\ Len(ended') = id /\ id <= MaxToasts
        /\ ended'[id] = outcome /\ \A i \in 1..Len(ended) : ended'[i] = ended[i]
    BY <1>2, AppendProperties, WebPagesConstants
    DEF Toasts!ShowNotification, ToastInv, Toasts!ToastsConstants
  <2>2. /\ listening' \in BOOLEAN /\ activeErrorId' = activeErrorId
        /\ toasts' = IF listening' THEN Toasts!Stacked(id) ELSE toasts
        /\ errors' = IF listening' /\ outcome.content = "MODAL_LINK"
                     THEN [e \in DOMAIN errors \cup {id} |->
                             IF e = id THEN outcome.body ELSE errors[e]]
                     ELSE errors
    BY <1>2, <2>1 DEF Toasts!ShowNotification, ToastInv
  <2>3. /\ toasts' \in Seq(1..id) /\ Len(toasts') <= MaxStack
        /\ \/ \A j \in 1..Len(toasts') : j \in 1..Len(toasts) /\ toasts'[j] = toasts[j]
           \/ /\ listening' /\ toasts'[1] = id
              /\ \A j \in 1..Len(toasts') :
                   j = 1 \/ (j - 1 \in 1..Len(toasts) /\ toasts'[j] = toasts[j - 1])
    <3>1. toasts \in Seq(1..id) /\ id \in 1..id /\ Len(toasts) <= MaxStack
      BY DEF ToastInv
    <3>2. CASE listening'
      <4>1. /\ Toasts!Stacked(id) \in Seq(1..id) /\ Len(Toasts!Stacked(id)) <= MaxStack
            /\ Toasts!Stacked(id)[1] = id
            /\ \A j \in 1..Len(Toasts!Stacked(id)) :
                 j = 1 \/ (j - 1 \in 1..Len(toasts) /\ Toasts!Stacked(id)[j] = toasts[j - 1])
        BY <3>1, StackedAre
      <4>2. toasts' = Toasts!Stacked(id)
        BY <2>2, <3>2
      <4>. QED  BY <3>2, <4>1, <4>2
    <3>3. CASE ~listening'
      BY <2>2, <3>1, <3>3
    <3>. QED  BY <3>2, <3>3
  <2>4. /\ DOMAIN errors \subseteq DOMAIN errors' /\ DOMAIN errors' \subseteq 1..id
        /\ \A e \in DOMAIN errors : errors'[e] = errors[e]
        /\ listening' /\ outcome.content = "MODAL_LINK" =>
             id \in DOMAIN errors' /\ errors'[id] = outcome.body
    BY <2>2 DEF ToastInv
  <2>. HIDE DEF id
  <2>5. id \in Nat /\ Len(ended) = id - 1 /\ \A i \in 1..Len(toasts) : toasts[i] \in 1..(id - 1)
    BY DEF ToastInv, id
  <2>6. \A i, j \in 1..Len(toasts') : toasts'[i] = toasts'[j] => i = j
    <3>1. CASE \A j \in 1..Len(toasts') : j \in 1..Len(toasts) /\ toasts'[j] = toasts[j]
      BY <3>1 DEF ToastInv
    <3>2. CASE /\ toasts'[1] = id
               /\ \A j \in 1..Len(toasts') :
                    j = 1 \/ (j - 1 \in 1..Len(toasts) /\ toasts'[j] = toasts[j - 1])
      <4>1. ASSUME NEW i \in 1..Len(toasts'), NEW j \in 1..Len(toasts'),
                   toasts'[i] = toasts'[j], i # 1
            PROVE  i = j
        <5>1. i - 1 \in 1..Len(toasts) /\ toasts'[i] = toasts[i - 1] /\ toasts[i - 1] # id
          BY <2>5, <3>2, <4>1
        <5>2. j # 1
          BY <3>2, <4>1, <5>1
        <5>3. j - 1 \in 1..Len(toasts) /\ toasts'[j] = toasts[j - 1]
          BY <3>2, <5>2
        <5>4. i - 1 = j - 1
          BY <4>1, <5>1, <5>3 DEF ToastInv
        <5>. QED  BY <5>4
      <4>. QED  BY <4>1
    <3>. QED  BY <2>3, <3>1, <3>2
  <2>7. \A j \in 1..Len(toasts') :
          \/ \E i \in 1..Len(toasts) : toasts'[j] = toasts[i]
          \/ listening' /\ toasts'[j] = id
    BY <2>3
  <2>8. \A j \in 1..Len(toasts') : ended'[toasts'[j]].content = "MODAL_LINK" =>
          toasts'[j] \in DOMAIN errors' /\ errors'[toasts'[j]] = ended'[toasts'[j]].body
    <3>1. ASSUME NEW i \in 1..Len(toasts), ended'[toasts[i]].content = "MODAL_LINK"
          PROVE  toasts[i] \in DOMAIN errors' /\ errors'[toasts[i]] = ended'[toasts[i]].body
      <4>1. ended'[toasts[i]] = ended[toasts[i]]
        BY <2>1, <2>5
      <4>2. toasts[i] \in DOMAIN errors /\ errors[toasts[i]] = ended[toasts[i]].body
        BY <3>1, <4>1 DEF ToastInv
      <4>. QED  BY <2>4, <4>1, <4>2
    <3>2. listening' /\ ended'[id].content = "MODAL_LINK" =>
            id \in DOMAIN errors' /\ errors'[id] = ended'[id].body
      BY <2>1, <2>4
    <3>. QED  BY <2>7, <3>1, <3>2
  <2>9. activeErrorId # 0 => \A j \in 1..Len(toasts') : toasts'[j] # activeErrorId
    <3>1. activeErrorId # id
      BY <2>5 DEF ToastInv
    <3>2. activeErrorId # 0 => \A i \in 1..Len(toasts) : toasts[i] # activeErrorId
      BY DEF ToastInv
    <3>. HIDE DEF ToastInv
    <3>. QED  BY <2>7, <3>1, <3>2
  <2>10. activeErrorId \in 0..id /\ (activeErrorId # 0 => activeErrorId \in DOMAIN errors)
    BY <2>5 DEF ToastInv
  <2>. QED  BY <2>1, <2>2, <2>3, <2>4, <2>6, <2>8, <2>9, <2>10 DEF ToastInv
<1>3. ASSUME NEW i \in DOMAIN toasts,
             Toasts!Click(i) \/ Toasts!ClickLink(i) \/ Toasts!TimeOut(i)
      PROVE  ToastInv'
  <2>1. i \in 1..Len(toasts)
    BY DEF ToastInv
  <2>. QED
    BY <1>3, <2>1, ClosedKeepsInv DEF Toasts!Click, Toasts!ClickLink, Toasts!TimeOut
<1>4. CASE Toasts!HideError
  <2>1. /\ activeErrorId' = 0 /\ UNCHANGED <<ended, toasts, listening>>
        /\ errors' = [id \in DOMAIN errors \ {activeErrorId} |-> errors[id]]
    BY <1>4 DEF Toasts!HideError, Toasts!OtherErrors
  <2>2. activeErrorId # 0
    BY <1>4 DEF Toasts!HideError
  <2>. QED  BY <2>1, <2>2 DEF ToastInv
<1>. QED  BY <1>1, <1>2, <1>3, <1>4 DEF Toasts!Next

\* The invariant of the messages gives their types and their property.
LEMMA ToastsFit ==
  ASSUME ToastInv
  PROVE  Toasts!LinksLead /\ Toasts!TypeOK
<1>1. Toasts!LinksLead
  BY DEF ToastInv, Toasts!LinksLead
<1>2. Toasts!TypeOK
  BY WebPagesConstants DEF ToastInv, Toasts!TypeOK, Toasts!ToastsConstants
<1>. QED  BY <1>1, <1>2

-----------------------------------------------------------------------------
(* Requests. *)

\* Requests whose completion waits to be reduced or to be emitted.
Completing == {s \in Requests!Made : Requests!Queued(s)}
Emitting == {s \in Requests!Made : emits # <<>> /\ emits[1].of = s}
Answered == Completing \cup Emitting

RequestTypes ==
  /\ made \in 0..MaxRequests
  /\ kind \in Seq(Types) /\ Len(kind) = made
  /\ how \in Seq(Requests!Hows) /\ Len(how) = made
  /\ observer \in Seq({"none", "waiting", "told", "gone"}) /\ Len(observer) = made
  /\ told \in Seq(0..made) /\ Len(told) = made
  /\ calls \subseteq Requests!Made
  /\ DOMAIN entities \subseteq {r \in Requests!Made : how[r] # "plain"}
  /\ \A r \in DOMAIN entities :
       entities[r] \in {Requests!Busy} \cup {Requests!Done(s) : s \in Requests!Made}
  /\ emits = <<>> \/ \E s \in Requests!Made :
                       emits = <<Requests!Success(s)>> /\ kind[s] \in Deletions

\* A completion is reduced before anything else; requests start in the order of their
\* numbers, after all that was started; what is removed was told.
QueueInv ==
  /\ queue \in Seq(Requests!Actions)
  /\ \A i \in 1..Len(queue) :
       /\ Requests!Completes(queue[i]) => i = 1 /\ queue[i].of \in Requests!Made
       /\ queue[i].name = "start" =>
            /\ queue[i].of \in Requests!Made /\ observer[queue[i].of] # "told"
            /\ \A s \in calls \cup DOMAIN entities \cup Answered : s < queue[i].of
       /\ queue[i].name = "remove" =>
            \A r \in queue[i].ids : r \in Requests!Made /\ observer[r] = "told"
  /\ \A i, j \in 1..Len(queue) :
       i < j /\ queue[i].name = "start" /\ queue[j].name = "start" => queue[i].of < queue[j].of

\* Of a type whose calls replace one another there is one call, or its answer, and it is
\* the newest request's.
CallInv ==
  /\ \A s \in calls \cup Answered, r \in DOMAIN entities :
       kind[s] \notin Merged /\ kind[r] = kind[s] => r <= s
  /\ \A s \in calls \cup Answered, t \in calls :
       kind[s] \notin Merged /\ kind[s] = kind[t] => s = t /\ s \notin Answered
  /\ \A s \in Completing, t \in Emitting : s = t
  /\ \A s \in Completing :
       Requests!HasId(s) /\ kind[s] \notin Merged \cup Deletions => s \in DOMAIN entities

\* What observers were told, and that they are told in time.
ObserverInv ==
  /\ \A r \in Requests!Made :
       /\ observer[r] # "none" <=> how[r] = "dispatch"
       /\ how[r] = "dispatch" => kind[r] \notin Merged
       /\ observer[r] = "told" => r \notin calls
       /\ observer[r] = "waiting" /\ r \in DOMAIN entities => entities[r].busy
       /\ observer[r] = "told" /\ r \in DOMAIN entities /\ kind[r] \notin Deletions =>
            \E i \in 1..Len(queue) : queue[i].name = "remove" /\ r \in queue[i].ids
  /\ \A r \in DOMAIN entities : kind[r] \notin Merged /\ ~entities[r].busy =>
       entities[r].of >= r /\ kind[entities[r].of] = kind[r]

RequestInv ==
  /\ RequestTypes /\ QueueInv /\ CallInv /\ ObserverInv
  /\ Requests!BusyHasCall /\ Requests!CallKeepsBusy /\ Requests!FreshOutcome

\* Actions tell their names and their requests.
LEMMA Messages ==
  ASSUME NEW r
  PROVE  /\ Requests!Start(r).name = "start" /\ Requests!Start(r).of = r
         /\ Requests!Success(r).name = "success" /\ Requests!Success(r).of = r
         /\ Requests!Failure(r).name = "failure" /\ Requests!Failure(r).of = r
         /\ Requests!Removal(r).name = "remove" /\ Requests!Removal(r).ids = r
         /\ ~Requests!Completes(Requests!Start(r)) /\ ~Requests!Completes(Requests!Removal(r))
         /\ Requests!Completes(Requests!Success(r)) /\ Requests!Completes(Requests!Failure(r))
  BY DEF Requests!Start, Requests!Success, Requests!Failure, Requests!Removal, Requests!Completes

\* What the effects dispatch are actions.
LEMMA MessagesAreActions ==
  /\ \A r \in Requests!Requests : {Requests!Start(r), Requests!Success(r), Requests!Failure(r)}
                                    \subseteq Requests!Actions
  /\ \A R \in SUBSET Requests!Requests : Requests!Removal(R) \in Requests!Actions
  BY DEF Requests!Start, Requests!Success, Requests!Failure, Requests!Removal, Requests!Actions

\* Actions have one of four names.
LEMMA ActionsAre ==
  ASSUME NEW a \in Requests!Actions
  PROVE  /\ a.name \in {"start", "success", "failure", "remove"}
         /\ Requests!Completes(a) <=> a.name \in {"success", "failure"}
  BY DEF Requests!Actions, Requests!Completes

\* Progress of a request that is under way, and of one that is done.
LEMMA ProgressIs ==
  /\ Requests!Busy.busy = TRUE
  /\ \A r : Requests!Done(r).busy = FALSE /\ Requests!Done(r).of = r
  BY DEF Requests!Busy, Requests!Done

\* Requests are numbers, and the calls are made for requests there are.
LEMMA RequestsAre ==
  ASSUME RequestTypes
  PROVE  /\ Requests!Made \subseteq Nat \ {0} /\ Requests!Made \subseteq Requests!Requests
         /\ made \in Nat /\ DOMAIN entities \subseteq Requests!Made
         /\ Completing \subseteq Requests!Made /\ Emitting \subseteq Requests!Made
         /\ calls \subseteq Requests!Made
  BY WebPagesConstants DEF RequestTypes, Requests!Made, Requests!Requests, Requests!AsyncConstants,
     Completing, Emitting

\* A function on the first numbers is a sequence.
LEMMA FunctionsAreSequences ==
  ASSUME NEW S, NEW n \in Nat, NEW f \in [1..n -> S]
  PROVE  f \in Seq(S) /\ Len(f) = n
  OBVIOUS

\* The invariant of the requests holds at first.
LEMMA RequestInvStarts ==
  ASSUME Init
  PROVE  RequestInv
<1>1. /\ made = 0 /\ kind = <<>> /\ how = <<>> /\ queue = <<>> /\ entities = <<>>
      /\ calls = {} /\ emits = <<>> /\ observer = <<>> /\ told = <<>>
  BY DEF Init, Requests!Init
<1>2. Requests!Made = {} /\ DOMAIN entities = {} /\ 1..Len(queue) = {}
  BY <1>1 DEF Requests!Made
<1>3. Completing = {} /\ Emitting = {}
  BY <1>2 DEF Completing, Emitting
<1>4. RequestTypes
  BY <1>1, <1>2, WebPagesConstants DEF RequestTypes, Requests!AsyncConstants
<1>5. QueueInv
  BY <1>1, <1>2 DEF QueueInv
<1>. QED
  BY <1>1, <1>2, <1>3, <1>4, <1>5 DEF RequestInv, CallInv, ObserverInv, Answered,
     Requests!BusyHasCall, Requests!CallKeepsBusy, Requests!FreshOutcome

\* A request that is dispatched keeps the invariant.
LEMMA DispatchKeepsInv ==
  ASSUME RequestInv, NEW t \in Types, NEW w \in Requests!Hows, Requests!Dispatch(t, w)
  PROVE  RequestInv'
<1>0. /\ RequestTypes /\ QueueInv /\ CallInv /\ ObserverInv
      /\ Requests!BusyHasCall /\ Requests!CallKeepsBusy /\ Requests!FreshOutcome
  BY DEF RequestInv
<1>a. PICK n : n = made + 1
  OBVIOUS
<1>1. /\ made' = n /\ n \in 1..MaxRequests /\ n \in Nat /\ made \in Nat
      /\ Requests!Made' = Requests!Made \cup {n} /\ n \notin Requests!Made
      /\ \A s \in Requests!Made : s < n
  BY <1>0, <1>a, WebPagesConstants
  DEF Requests!Dispatch, RequestTypes, Requests!Made, Requests!AsyncConstants
<1>2. /\ kind' \in Seq(Types) /\ Len(kind') = n /\ kind'[n] = t
      /\ how' \in Seq(Requests!Hows) /\ Len(how') = n /\ how'[n] = w
      /\ \A s \in Requests!Made : kind'[s] = kind[s] /\ how'[s] = how[s]
  BY <1>0, <1>a, AppendProperties DEF Requests!Dispatch, RequestTypes, Requests!Made
<1>3. /\ observer' \in Seq({"none", "waiting", "told", "gone"}) /\ Len(observer') = n
      /\ observer'[n] = IF w = "dispatch" THEN "waiting" ELSE "none"
      /\ \A s \in Requests!Made : observer'[s] = observer[s]
  <2>1. (IF w = "dispatch" THEN "waiting" ELSE "none") \in {"none", "waiting", "told", "gone"}
    OBVIOUS
  <2>. QED  BY <1>0, <1>a, <2>1, AppendProperties DEF Requests!Dispatch, RequestTypes, Requests!Made
<1>4. /\ told' \in Seq(0..n) /\ Len(told') = n
      /\ \A s \in Requests!Made : told'[s] = told[s]
  <2>1. told \in Seq(0..n) /\ Len(told) = made /\ 0 \in 0..n
    BY <1>0, <1>1, <1>a DEF RequestTypes
  <2>2. told' = Append(told, 0)
    BY DEF Requests!Dispatch
  <2>. QED  BY <1>1, <1>a, <2>1, <2>2, AppendProperties DEF Requests!Made
<1>5. /\ queue' \in Seq(Requests!Actions) /\ Len(queue') = Len(queue) + 1
      /\ queue'[Len(queue) + 1] = Requests!Start(n)
      /\ \A i \in 1..Len(queue) : queue'[i] = queue[i]
  <2>1. queue \in Seq(Requests!Actions) /\ Requests!Start(n) \in Requests!Actions
    BY <1>0, <1>1, MessagesAreActions DEF QueueInv, Requests!Requests
  <2>. QED  BY <1>a, <2>1, AppendProperties DEF Requests!Dispatch
<1>6. UNCHANGED <<entities, calls, emits>> /\ (w = "dispatch" => t \notin Merged)
  BY DEF Requests!Dispatch
<1>7. \A s \in Requests!Made : Requests!Queued(s)' <=> Requests!Queued(s)
  <2>1. DOMAIN queue = 1..Len(queue) /\ DOMAIN queue' = 1..(Len(queue) + 1) /\ Len(queue) \in Nat
    BY <1>0, <1>5 DEF QueueInv
  <2>. QED  BY <1>5, <2>1, Messages DEF Requests!Queued
<1>8. ~Requests!Queued(n)'
  <2>1. DOMAIN queue' = 1..(Len(queue) + 1) /\ Len(queue) \in Nat
    BY <1>0, <1>5 DEF QueueInv
  <2>2. \A i \in 1..Len(queue) : Requests!Completes(queue[i]) => queue[i].of \in Requests!Made
    BY <1>0 DEF QueueInv
  <2>3. \A i \in DOMAIN queue' : i \in 1..Len(queue) \/ i = Len(queue) + 1
    BY <2>1
  <2>4. ASSUME NEW i \in DOMAIN queue', queue'[i].of = n, Requests!Completes(queue'[i])
        PROVE  FALSE
    <3>1. CASE i \in 1..Len(queue)
      BY <1>1, <1>5, <2>2, <2>4, <3>1
    <3>2. CASE i = Len(queue) + 1
      BY <1>5, <2>4, <3>2, Messages
    <3>. QED  BY <2>3, <3>1, <3>2
  <2>. QED  BY <2>4 DEF Requests!Queued
<1>9. Completing' = Completing /\ Emitting' = Emitting /\ Answered' = Answered
  <2>1. Completing' = Completing
    <3>1. \A s : s \in Completing' <=> s \in Requests!Made' /\ Requests!Queued(s)'
      BY DEF Completing
    <3>2. \A s : s \in Completing <=> s \in Requests!Made /\ Requests!Queued(s)
      BY DEF Completing
    <3>3. \A s : s \in Completing' <=> s \in Completing
      BY <1>1, <1>7, <1>8, <3>1, <3>2
    <3>. QED  BY <3>3
  <2>2. Emitting' = Emitting
    <3>1. emits # <<>> => emits[1].of \in Requests!Made
      BY <1>0, Messages DEF RequestTypes
    <3>. QED  BY <1>1, <1>6, <3>1 DEF Emitting
  <2>. QED  BY <2>1, <2>2 DEF Answered
<1>10. /\ calls \cup Answered \cup DOMAIN entities \subseteq Requests!Made
       /\ Completing \subseteq Requests!Made
  BY <1>0, RequestsAre DEF Answered
<1>11. RequestTypes'
  BY <1>0, <1>1, <1>2, <1>3, <1>4, <1>6 DEF RequestTypes
<1>12. QueueInv'
  <2>1. Len(queue) \in Nat /\ \A i \in 1..Len(queue') : i \in 1..Len(queue) \/ i = Len(queue) + 1
    BY <1>0, <1>5 DEF QueueInv
  <2>2. ASSUME NEW i \in 1..Len(queue')
        PROVE  /\ Requests!Completes(queue'[i]) => i = 1 /\ queue'[i].of \in Requests!Made'
               /\ queue'[i].name = "start" =>
                    /\ queue'[i].of \in Requests!Made' /\ observer'[queue'[i].of] # "told"
                    /\ \A s \in calls' \cup DOMAIN entities' \cup Answered' : s < queue'[i].of
               /\ queue'[i].name = "remove" =>
                    \A r \in queue'[i].ids : r \in Requests!Made' /\ observer'[r] = "told"
    <3>1. CASE i \in 1..Len(queue)
      <4>1. queue'[i] = queue[i]
        BY <1>5, <3>1
      <4>2. Requests!Completes(queue[i]) => i = 1 /\ queue[i].of \in Requests!Made'
        BY <1>0, <1>1, <3>1 DEF QueueInv
      <4>3. queue[i].name = "start" =>
              /\ queue[i].of \in Requests!Made' /\ observer'[queue[i].of] # "told"
              /\ \A s \in calls' \cup DOMAIN entities' \cup Answered' : s < queue[i].of
        BY <1>0, <1>1, <1>3, <1>6, <1>9, <3>1 DEF QueueInv
      <4>4. queue[i].name = "remove" =>
              \A r \in queue[i].ids : r \in Requests!Made' /\ observer'[r] = "told"
        BY <1>0, <1>1, <1>3, <3>1 DEF QueueInv
      <4>. QED  BY <4>1, <4>2, <4>3, <4>4
    <3>2. CASE i = Len(queue) + 1
      <4>1. queue'[i] = Requests!Start(n) /\ queue'[i].of = n /\ queue'[i].name = "start"
            /\ ~Requests!Completes(queue'[i])
        BY <1>5, <3>2, Messages
      <4>2. n \in Requests!Made' /\ observer'[n] # "told"
        BY <1>1, <1>3
      <4>3. \A s \in calls' \cup DOMAIN entities' \cup Answered' : s < n
        BY <1>1, <1>6, <1>9, <1>10
      <4>. QED  BY <4>1, <4>2, <4>3
    <3>. QED  BY <2>1, <3>1, <3>2
  <2>3. ASSUME NEW i \in 1..Len(queue'), NEW j \in 1..Len(queue'), i < j,
               queue'[i].name = "start", queue'[j].name = "start"
        PROVE  queue'[i].of < queue'[j].of
    <3>1. i \in 1..Len(queue) /\ queue'[i] = queue[i]
      BY <1>5, <2>1, <2>3
    <3>2. CASE j \in 1..Len(queue)
      BY <1>0, <1>5, <2>3, <3>1, <3>2 DEF QueueInv
    <3>3. CASE j = Len(queue) + 1
      <4>1. queue[i].of \in Requests!Made
        BY <1>0, <2>3, <3>1 DEF QueueInv
      <4>. QED  BY <1>1, <1>5, <3>1, <3>3, <4>1, Messages
    <3>. QED  BY <2>1, <3>2, <3>3
  <2>. QED  BY <1>5, <2>2, <2>3 DEF QueueInv
<1>13. CallInv'
  BY <1>0, <1>2, <1>6, <1>9, <1>10 DEF CallInv, Requests!HasId
<1>14. ObserverInv'
  <2>1. ASSUME NEW s \in Requests!Made'
        PROVE  /\ observer'[s] # "none" <=> how'[s] = "dispatch"
               /\ how'[s] = "dispatch" => kind'[s] \notin Merged
               /\ observer'[s] = "told" => s \notin calls'
               /\ observer'[s] = "waiting" /\ s \in DOMAIN entities' => entities'[s].busy
    <3>1. CASE s \in Requests!Made
      BY <1>0, <1>2, <1>3, <1>6, <3>1 DEF ObserverInv
    <3>2. CASE s = n
      BY <1>1, <1>2, <1>3, <1>6, <1>10, <3>2
    <3>. QED  BY <1>1, <3>1, <3>2
  <2>2. ASSUME NEW s \in Requests!Made', observer'[s] = "told", s \in DOMAIN entities',
               kind'[s] \notin Deletions
        PROVE  \E i \in 1..Len(queue') : queue'[i].name = "remove" /\ s \in queue'[i].ids
    <3>1. s \in Requests!Made
      BY <1>6, <1>10, <2>2
    <3>2. PICK i \in 1..Len(queue) : queue[i].name = "remove" /\ s \in queue[i].ids
      BY <1>0, <1>2, <1>3, <1>6, <2>2, <3>1 DEF ObserverInv
    <3>3. i \in 1..Len(queue') /\ queue'[i] = queue[i]
      BY <1>0, <1>5 DEF QueueInv
    <3>. QED  BY <3>2, <3>3
  <2>3. ASSUME NEW s \in DOMAIN entities', kind'[s] \notin Merged, ~entities'[s].busy
        PROVE  entities'[s].of >= s /\ kind'[entities'[s].of] = kind'[s]
    <3>1. s \in Requests!Made /\ kind[s] \notin Merged /\ ~entities[s].busy
      BY <1>2, <1>6, <1>10, <2>3
    <3>2. entities[s].of \in Requests!Made
      BY <1>0, <1>6, <3>1, ProgressIs DEF RequestTypes
    <3>. QED  BY <1>0, <1>2, <1>6, <3>1, <3>2 DEF ObserverInv
  <2>. QED  BY <2>1, <2>2, <2>3 DEF ObserverInv
<1>15. Requests!BusyHasCall' /\ Requests!CallKeepsBusy' /\ Requests!FreshOutcome'
  <2>1. Requests!BusyHasCall'
    BY <1>0, <1>1, <1>2, <1>6, <1>7, <1>10 DEF Requests!BusyHasCall
  <2>2. Requests!CallKeepsBusy'
    BY <1>0, <1>2, <1>6, <1>10 DEF Requests!CallKeepsBusy, Requests!HasId
  <2>3. ASSUME NEW s \in Requests!Made', observer'[s] = "told"
        PROVE  told'[s] >= s /\ kind'[told'[s]] = kind'[s]
    <3>1. s \in Requests!Made /\ observer[s] = "told"
      BY <1>1, <1>3, <2>3
    <3>2. told[s] >= s /\ told[s] \in 0..made /\ s \in 1..made
      BY <1>0, <3>1 DEF Requests!FreshOutcome, RequestTypes, Requests!Made
    <3>3. told[s] \in Requests!Made
      BY <1>1, <3>2 DEF Requests!Made
    <3>. QED  BY <1>0, <1>2, <1>4, <3>1, <3>2, <3>3 DEF Requests!FreshOutcome
  <2>. QED  BY <2>1, <2>2, <2>3 DEF Requests!FreshOutcome
<1>. QED  BY <1>11, <1>12, <1>13, <1>14, <1>15 DEF RequestInv

\* An observer that goes keeps the invariant.
LEMMA UnsubscribeKeepsInv ==
  ASSUME RequestInv, NEW r \in Requests!Made, Requests!Unsubscribe(r)
  PROVE  RequestInv'
<1>0. /\ RequestTypes /\ QueueInv /\ CallInv /\ ObserverInv
      /\ Requests!BusyHasCall /\ Requests!CallKeepsBusy /\ Requests!FreshOutcome
  BY DEF RequestInv
<1>1. /\ UNCHANGED <<made, kind, how, queue, entities, calls, emits, told>>
      /\ observer[r] = "waiting" /\ observer' = [observer EXCEPT ![r] = "gone"]
  BY DEF Requests!Unsubscribe
<1>2. /\ observer' \in Seq({"none", "waiting", "told", "gone"}) /\ Len(observer') = made
      /\ observer'[r] = "gone" /\ \A s \in Requests!Made : s # r => observer'[s] = observer[s]
  BY <1>0, <1>1 DEF RequestTypes, Requests!Made
<1>3. /\ Completing' = Completing /\ Emitting' = Emitting /\ Answered' = Answered
      /\ Requests!Made' = Requests!Made
      /\ \A s : Requests!Queued(s)' <=> Requests!Queued(s)
  BY <1>1 DEF Completing, Emitting, Answered, Requests!Made, Requests!Queued
<1>4. RequestTypes'
  BY <1>0, <1>1, <1>2, <1>3 DEF RequestTypes
<1>5. QueueInv'
  BY <1>0, <1>1, <1>2, <1>3 DEF QueueInv
<1>6. CallInv'
  BY <1>0, <1>1, <1>3 DEF CallInv, Requests!HasId
<1>7. ObserverInv'
  BY <1>0, <1>1, <1>2, <1>3 DEF ObserverInv
<1>8. Requests!BusyHasCall' /\ Requests!CallKeepsBusy'
  BY <1>0, <1>1, <1>3 DEF Requests!BusyHasCall, Requests!CallKeepsBusy, Requests!HasId
<1>9. Requests!FreshOutcome'
  BY <1>0, <1>1, <1>2, <1>3 DEF Requests!FreshOutcome
<1>. QED  BY <1>4, <1>5, <1>6, <1>7, <1>8, <1>9 DEF RequestInv

\* The queue when an effect emits.
LEMMA OneCompletion ==
  ASSUME NEW a \in Requests!Actions, Requests!Completes(a), queue' = <<a>>,
         a.of \in Requests!Made', Requests!Made' = Requests!Made
  PROVE  /\ queue' \in Seq(Requests!Actions) /\ Len(queue') = 1 /\ queue'[1] = a
         /\ a.name # "start" /\ a.name # "remove"
         /\ \A s : Requests!Queued(s)' <=> s = a.of
         /\ Completing' = {a.of}
<1>1. queue' \in Seq(Requests!Actions) /\ Len(queue') = 1 /\ queue'[1] = a /\ DOMAIN queue' = {1}
  OBVIOUS
<1>2. \A s : Requests!Queued(s)' <=> s = a.of
  BY <1>1 DEF Requests!Queued
<1>3. \A s : s \in Completing' <=> s = a.of
  BY <1>2 DEF Completing
<1>4. a.name # "start" /\ a.name # "remove"
  BY ActionsAre
<1>. QED  BY <1>1, <1>2, <1>3, <1>4

\* A call that is answered keeps the invariant.
LEMMA RespondKeepsInv ==
  ASSUME RequestInv, NEW r \in Requests!Made, Requests!Respond(r)
  PROVE  RequestInv'
<1>0. /\ RequestTypes /\ QueueInv /\ CallInv /\ ObserverInv
      /\ Requests!BusyHasCall /\ Requests!CallKeepsBusy /\ Requests!FreshOutcome
  BY DEF RequestInv
<1>1. /\ UNCHANGED <<made, kind, how, entities, observer, told>>
      /\ Requests!Made' = Requests!Made
      /\ queue = <<>> /\ emits = <<>> /\ r \in calls /\ calls' = calls \ {r}
  BY DEF Requests!Respond, Requests!Idle, Requests!Made
<1>2. PICK a \in {Requests!Success(r), Requests!Failure(r)} :
        /\ queue' = <<a>>
        /\ emits' = <<>> \/ (kind[r] \in Deletions /\ emits' = <<Requests!Success(r)>>)
  <2>. DEFINE fine == Requests!Success(r)
              wrong == Requests!Failure(r)
  <2>1. \/ queue' = <<fine>> /\ emits' = <<>>
        \/ queue' = <<wrong>> /\ emits' = <<>>
        \/ kind[r] \in Deletions /\ queue' = <<wrong>> /\ emits' = <<fine>>
    BY DEF Requests!Respond
  <2>. HIDE DEF fine, wrong
  <2>2. \E a \in {fine, wrong} :
          /\ queue' = <<a>>
          /\ emits' = <<>> \/ (kind[r] \in Deletions /\ emits' = <<fine>>)
    BY <2>1
  <2>. QED  BY <2>2 DEF fine, wrong
<1>3. a \in Requests!Actions /\ Requests!Completes(a) /\ a.of = r
  BY <1>0, <1>2, RequestsAre, MessagesAreActions, Messages
<1>4. /\ queue' \in Seq(Requests!Actions) /\ Len(queue') = 1 /\ queue'[1] = a
      /\ a.name # "start" /\ a.name # "remove"
      /\ \A s : Requests!Queued(s)' <=> s = r
      /\ Completing' = {r}
  BY <1>1, <1>2, <1>3, OneCompletion
<1>5. Emitting' \subseteq {r} /\ Answered' = {r}
  <2>1. emits' # <<>> => emits'[1].of = r
    BY <1>2, Messages
  <2>2. Emitting' \subseteq {r}
    BY <2>1 DEF Emitting
  <2>. QED  BY <1>4, <2>2 DEF Answered
<1>6. Completing = {} /\ Emitting = {} /\ Answered = {}
  <2>1. DOMAIN queue = {}
    BY <1>1
  <2>. QED  BY <1>1, <2>1 DEF Completing, Emitting, Answered, Requests!Queued
<1>7. RequestTypes'
  BY <1>0, <1>1, <1>2 DEF RequestTypes
<1>8. QueueInv'
  <2>1. 1..Len(queue') = {1}
    BY <1>4
  <2>. QED  BY <1>1, <1>3, <1>4, <2>1 DEF QueueInv
<1>9. CallInv'
  <2>1. \A s \in calls' \cup Answered', t \in DOMAIN entities' :
          kind'[s] \notin Merged /\ kind'[t] = kind'[s] => t <= s
    BY <1>0, <1>1, <1>5 DEF CallInv
  <2>2. \A s \in calls' \cup Answered', t \in calls' :
          kind'[s] \notin Merged /\ kind'[s] = kind'[t] => s = t /\ s \notin Answered'
    BY <1>0, <1>1, <1>5 DEF CallInv
  <2>3. Requests!HasId(r) /\ kind[r] \notin Merged => r \in DOMAIN entities
    BY <1>0, <1>1 DEF Requests!CallKeepsBusy
  <2>. QED  BY <1>1, <1>4, <1>5, <2>1, <2>2, <2>3 DEF CallInv, Requests!HasId
<1>10. ObserverInv'
  <2>1. 1..Len(queue) = {}
    BY <1>1
  <2>. QED  BY <1>0, <1>1, <2>1 DEF ObserverInv
<1>11. Requests!BusyHasCall'
  <2>1. \A s : ~Requests!Queued(s)
    BY <1>1 DEF Requests!Queued
  <2>. QED  BY <1>0, <1>1, <1>4, <2>1 DEF Requests!BusyHasCall
<1>12. Requests!CallKeepsBusy' /\ Requests!FreshOutcome'
  BY <1>0, <1>1 DEF Requests!CallKeepsBusy, Requests!HasId, Requests!FreshOutcome
<1>. QED  BY <1>7, <1>8, <1>9, <1>10, <1>11, <1>12 DEF RequestInv

\* What an effect dispatches keeps the invariant.
LEMMA EmitKeepsInv ==
  ASSUME RequestInv, Requests!Emit
  PROVE  RequestInv'
<1>0. /\ RequestTypes /\ QueueInv /\ CallInv /\ ObserverInv
      /\ Requests!BusyHasCall /\ Requests!CallKeepsBusy /\ Requests!FreshOutcome
  BY DEF RequestInv
<1>1. PICK r \in Requests!Made : emits = <<Requests!Success(r)>> /\ kind[r] \in Deletions
  BY <1>0 DEF Requests!Emit, RequestTypes
<1>. DEFINE a == Requests!Success(r)
<1>2. /\ UNCHANGED <<made, kind, how, entities, observer, told, calls>>
      /\ Requests!Made' = Requests!Made
      /\ queue = <<>> /\ queue' = <<a>> /\ emits' = <<>>
  BY <1>1 DEF Requests!Emit, Requests!Made
<1>3. a \in Requests!Actions /\ Requests!Completes(a) /\ a.of = r
  BY <1>0, RequestsAre, MessagesAreActions, Messages
<1>. HIDE DEF a
<1>4. /\ queue' \in Seq(Requests!Actions) /\ Len(queue') = 1 /\ queue'[1] = a
      /\ a.name # "start" /\ a.name # "remove"
      /\ \A s : Requests!Queued(s)' <=> s = r
      /\ Completing' = {r}
  BY <1>2, <1>3, OneCompletion
<1>5. Emitting' = {} /\ Answered' = {r}
  BY <1>2, <1>4 DEF Emitting, Answered
<1>6. r \in Answered
  <2>1. emits # <<>> /\ emits[1].of = r
    BY <1>1, Messages
  <2>. QED  BY <2>1 DEF Emitting, Answered
<1>7. RequestTypes'
  BY <1>0, <1>2 DEF RequestTypes
<1>8. QueueInv'
  <2>1. 1..Len(queue') = {1}
    BY <1>4
  <2>. QED  BY <1>2, <1>3, <1>4, <2>1 DEF QueueInv
<1>9. CallInv'
  <2>1. \A s \in calls' \cup Answered', t \in DOMAIN entities' :
          kind'[s] \notin Merged /\ kind'[t] = kind'[s] => t <= s
    BY <1>0, <1>2, <1>5, <1>6 DEF CallInv
  <2>2. \A s \in calls' \cup Answered', t \in calls' :
          kind'[s] \notin Merged /\ kind'[s] = kind'[t] => s = t /\ s \notin Answered'
    BY <1>0, <1>2, <1>5, <1>6 DEF CallInv
  <2>. QED  BY <1>1, <1>2, <1>4, <1>5, <2>1, <2>2 DEF CallInv
<1>10. ObserverInv'
  <2>1. 1..Len(queue) = {}
    BY <1>2
  <2>. QED  BY <1>0, <1>2, <2>1 DEF ObserverInv
<1>11. Requests!BusyHasCall'
  <2>1. \A s : ~Requests!Queued(s)
    BY <1>2 DEF Requests!Queued
  <2>. QED  BY <1>0, <1>2, <1>4, <2>1 DEF Requests!BusyHasCall
<1>12. Requests!CallKeepsBusy' /\ Requests!FreshOutcome'
  BY <1>0, <1>2 DEF Requests!CallKeepsBusy, Requests!HasId, Requests!FreshOutcome
<1>. QED  BY <1>7, <1>8, <1>9, <1>10, <1>11, <1>12 DEF RequestInv

\* What the reducer and the effects make of an action a.
ReducedWell(a) ==
  /\ DOMAIN entities' \subseteq {r \in Requests!Made : how[r] # "plain"}
  /\ \A r \in DOMAIN entities' :
       entities'[r] \in {Requests!Busy} \cup {Requests!Done(s) : s \in Requests!Made}
  /\ calls' \subseteq Requests!Made /\ emits' \in {emits, <<>>}
  /\ DOMAIN entities' \cup calls' \subseteq
       DOMAIN entities \cup calls \cup (IF a.name = "remove" THEN {} ELSE {a.of})
  /\ \A s \in calls' \cup Emitting', r \in DOMAIN entities' :
       kind[s] \notin Merged /\ kind[r] = kind[s] => r <= s
  /\ \A s \in calls' \cup Emitting', t \in calls' :
       kind[s] \notin Merged /\ kind[s] = kind[t] => s = t /\ s \notin Emitting'
  /\ \A r \in DOMAIN entities' : entities'[r].busy =>
       \E s \in calls' : s >= r /\ kind[s] = kind[r]
  /\ \A r \in calls' : Requests!HasId(r) /\ kind[r] \notin Merged =>
       r \in DOMAIN entities' /\ entities'[r].busy
  /\ \A r \in DOMAIN entities' : kind[r] \notin Merged /\ ~entities'[r].busy =>
       entities'[r].of >= r /\ kind[entities'[r].of] = kind[r]
  /\ \A r \in Requests!Made : observer[r] = "told" =>
       /\ r \notin calls'
       /\ r \in DOMAIN entities' /\ kind[r] \notin Deletions =>
            r \in DOMAIN entities /\ ~(a.name = "remove" /\ r \in a.ids)

\* What the reducer and the effects make of a request.
LEMMA StartReducedWell ==
  ASSUME RequestInv, queue # <<>>, NEW a, a = Head(queue), a.name = "start", UNCHANGED made,
         entities' = Requests!Reduced(a), Requests!Effects(a)
  PROVE  ReducedWell(a)
<1>. DEFINE r == a.of
<1>0. /\ RequestTypes /\ QueueInv /\ CallInv /\ ObserverInv
      /\ Requests!BusyHasCall /\ Requests!CallKeepsBusy /\ Requests!FreshOutcome
  BY DEF RequestInv
<1>1. a = queue[1] /\ 1 \in 1..Len(queue) /\ Len(queue) \in Nat
  BY <1>0 DEF QueueInv
<1>2. /\ r \in Requests!Made /\ observer[r] # "told"
      /\ \A s \in calls \cup DOMAIN entities \cup Answered : s < r
  BY <1>0, <1>1 DEF QueueInv
<1>3. \A s : ~Requests!Queued(s)
  <2>1. a \in Requests!Actions
    BY <1>0, <1>1 DEF QueueInv
  <2>2. ~Requests!Completes(a)
    BY <2>1, ActionsAre
  <2>. QED  BY <1>0, <1>1, <2>2 DEF QueueInv, Requests!Queued
<1>4. entities' = IF Requests!HasId(r) THEN Requests!With({r}, Requests!Busy) ELSE entities
  <2>1. a.name = "start" /\ a.name # "remove" /\ ~Requests!Completes(a)
    BY DEF Requests!Completes
  <2>. QED  BY <2>1 DEF Requests!Reduced
<1>5. /\ DOMAIN entities' = IF Requests!HasId(r) THEN DOMAIN entities \cup {r} ELSE DOMAIN entities
      /\ \A s \in DOMAIN entities' :
           entities'[s] = IF Requests!HasId(r) /\ s = r THEN Requests!Busy ELSE entities[s]
  BY <1>4 DEF Requests!With
<1>6. /\ calls' = (calls \ Requests!Cancelled(r)) \cup {r}
      /\ emits' = IF \E i \in DOMAIN emits : emits[i].of \in Requests!Cancelled(r)
                  THEN <<>> ELSE emits
  BY DEF Requests!Effects
<1>7. Requests!Made' = Requests!Made
  BY DEF Requests!Made
<1>8. Emitting' = IF Emitting \cap Requests!Cancelled(r) = {} THEN Emitting ELSE {}
  <2>1. CASE emits = <<>>
    <3>1. emits' = <<>> /\ Emitting = {}
      BY <1>6, <2>1 DEF Emitting
    <3>. QED  BY <3>1 DEF Emitting
  <2>2. ASSUME NEW s \in Requests!Made, emits = <<Requests!Success(s)>>
        PROVE  Emitting' = IF Emitting \cap Requests!Cancelled(r) = {} THEN Emitting ELSE {}
    <3>1. DOMAIN emits = {1} /\ emits[1].of = s /\ emits # <<>>
      BY <2>2, Messages
    <3>2. Emitting = {s}
      BY <3>1 DEF Emitting
    <3>3. emits' = IF s \in Requests!Cancelled(r) THEN <<>> ELSE emits
      BY <1>6, <3>1
    <3>4. CASE s \in Requests!Cancelled(r)
      BY <3>2, <3>3, <3>4 DEF Emitting
    <3>5. CASE s \notin Requests!Cancelled(r)
      <4>1. emits' = emits
        BY <3>3, <3>5
      <4>2. Emitting' = Emitting
        BY <1>7, <4>1 DEF Emitting
      <4>. QED  BY <3>2, <3>5, <4>2
    <3>. QED  BY <3>4, <3>5
  <2>. QED  BY <1>0, <2>1, <2>2 DEF RequestTypes
<1>9. kind[r] \notin Merged => Requests!Cancelled(r) = {s \in Requests!Made : kind[s] = kind[r]}
  BY DEF Requests!Cancelled
<1>10. kind[r] \in Merged => Requests!Cancelled(r) = {}
  BY DEF Requests!Cancelled
<1>11. /\ calls \subseteq Requests!Made /\ DOMAIN entities \subseteq Requests!Made
       /\ Emitting \subseteq Requests!Made /\ Emitting \subseteq Answered
       /\ Requests!Made \subseteq Nat \ {0}
  BY <1>0, RequestsAre DEF Answered
<1>. HIDE DEF r
<1>12. /\ DOMAIN entities' \subseteq {s \in Requests!Made : how[s] # "plain"}
       /\ \A s \in DOMAIN entities' :
            entities'[s] \in {Requests!Busy} \cup {Requests!Done(t) : t \in Requests!Made}
       /\ calls' \subseteq Requests!Made /\ emits' \in {emits, <<>>}
       /\ DOMAIN entities' \cup calls' \subseteq
            DOMAIN entities \cup calls \cup (IF a.name = "remove" THEN {} ELSE {a.of})
  BY <1>0, <1>2, <1>5, <1>6 DEF RequestTypes, Requests!HasId, r
<1>13. ASSUME NEW s \in calls' \cup Emitting', NEW t \in DOMAIN entities', kind[s] \notin Merged,
              kind[t] = kind[s]
       PROVE  t <= s
  <2>1. CASE s = r
    BY <1>2, <1>5, <1>11, <2>1
  <2>2. CASE s # r
    <3>1. s \in calls \cup Emitting /\ s \notin Requests!Cancelled(r) /\ s \in Requests!Made
      BY <1>6, <1>8, <1>11, <2>2
    <3>2. t # r
      BY <1>9, <1>13, <3>1
    <3>. QED  BY <1>0, <1>5, <1>11, <1>13, <3>1, <3>2 DEF CallInv
  <2>. QED  BY <2>1, <2>2
<1>14. ASSUME NEW s \in calls' \cup Emitting', NEW t \in calls', kind[s] \notin Merged,
              kind[s] = kind[t]
       PROVE  s = t /\ s \notin Emitting'
  <2>1. \A u \in calls' \cup Emitting' :
          u = r \/ (u \in calls \cup Emitting /\ u \notin Requests!Cancelled(r) /\ u \in Requests!Made)
    BY <1>6, <1>8, <1>11
  <2>2. r \notin Emitting'
    BY <1>2, <1>8, <1>11
  <2>3. CASE s = r \/ t = r
    BY <1>9, <1>14, <2>1, <2>2, <2>3
  <2>4. CASE s # r /\ t # r
    <3>1. s \in calls \cup Answered /\ t \in calls
      BY <1>6, <1>11, <2>1, <2>4
    <3>2. s = t /\ s \notin Answered
      BY <1>0, <1>14, <3>1 DEF CallInv
    <3>. QED  BY <1>8, <1>11, <3>2
  <2>. QED  BY <2>3, <2>4
<1>15. ASSUME NEW s \in DOMAIN entities', entities'[s].busy
       PROVE  \E t \in calls' : t >= s /\ kind[t] = kind[s]
  <2>1. CASE s = r
    BY <1>2, <1>6, <1>11, <2>1
  <2>2. CASE s # r
    <3>1. s \in DOMAIN entities /\ entities[s].busy
      BY <1>5, <1>15, <2>2
    <3>2. PICK t \in Requests!Made : t >= s /\ kind[t] = kind[s] /\ t \in calls
      BY <1>0, <1>3, <3>1 DEF Requests!BusyHasCall
    <3>3. CASE t \in Requests!Cancelled(r)
      <4>1. kind[t] = kind[r] /\ s < r
        BY <1>2, <1>9, <1>10, <3>1, <3>3
      <4>. QED  BY <1>2, <1>6, <1>11, <3>1, <3>2, <4>1
    <3>4. CASE t \notin Requests!Cancelled(r)
      BY <1>6, <3>2, <3>4
    <3>. QED  BY <3>3, <3>4
  <2>. QED  BY <2>1, <2>2
<1>16. ASSUME NEW s \in calls', Requests!HasId(s), kind[s] \notin Merged
       PROVE  s \in DOMAIN entities' /\ entities'[s].busy
  <2>1. CASE s = r
    BY <1>5, <1>16, <2>1, ProgressIs
  <2>2. CASE s # r
    <3>1. s \in calls
      BY <1>6, <2>2
    <3>. QED  BY <1>0, <1>5, <1>16, <2>2, <3>1 DEF Requests!CallKeepsBusy
  <2>. QED  BY <2>1, <2>2
<1>17. ASSUME NEW s \in DOMAIN entities', kind[s] \notin Merged, ~entities'[s].busy
       PROVE  entities'[s].of >= s /\ kind[entities'[s].of] = kind[s]
  <2>1. s \in DOMAIN entities /\ entities'[s] = entities[s]
    BY <1>5, <1>17, ProgressIs
  <2>. QED  BY <1>0, <1>17, <2>1 DEF ObserverInv
<1>18. ASSUME NEW s \in Requests!Made, observer[s] = "told"
       PROVE  s \notin calls' /\ (s \in DOMAIN entities' => s \in DOMAIN entities)
  BY <1>0, <1>2, <1>5, <1>6, <1>18 DEF ObserverInv
<1>. QED  BY <1>12, <1>13, <1>14, <1>15, <1>16, <1>17, <1>18 DEF ReducedWell

\* What the reducer and the effects make of a completion.
LEMMA CompletionReducedWell ==
  ASSUME RequestInv, queue # <<>>, NEW a, a = Head(queue), Requests!Completes(a), UNCHANGED made,
         entities' = Requests!Reduced(a), Requests!Effects(a)
  PROVE  ReducedWell(a)
<1>. DEFINE r == a.of
<1>0. /\ RequestTypes /\ QueueInv /\ CallInv /\ ObserverInv
      /\ Requests!BusyHasCall /\ Requests!CallKeepsBusy /\ Requests!FreshOutcome
  BY DEF RequestInv
<1>1. a = queue[1] /\ 1 \in 1..Len(queue) /\ Len(queue) \in Nat /\ DOMAIN queue = 1..Len(queue)
  BY <1>0 DEF QueueInv
<1>2. a.name # "start" /\ a.name # "remove"
  BY <1>0, <1>1, ActionsAre DEF QueueInv, Requests!Completes
<1>3. r \in Requests!Made /\ r \in Completing
  <2>1. r \in Requests!Made
    BY <1>0, <1>1 DEF QueueInv
  <2>. QED  BY <1>1, <2>1 DEF Completing, Requests!Queued
<1>4. \A s : Requests!Queued(s) => s = r
  BY <1>0, <1>1 DEF QueueInv, Requests!Queued
<1>5. UNCHANGED <<calls, emits>> /\ Requests!Made' = Requests!Made
  BY <1>2 DEF Requests!Effects, Requests!Made
<1>6. Emitting' = Emitting
  BY <1>5 DEF Emitting
<1>7. entities' = Requests!Completed(r)
  BY <1>2 DEF Requests!Reduced
<1>8. /\ calls \subseteq Requests!Made /\ DOMAIN entities \subseteq Requests!Made
      /\ Emitting \subseteq Requests!Made /\ Emitting \subseteq Answered
      /\ Completing \subseteq Answered /\ Requests!Made \subseteq Nat \ {0}
  BY <1>0, RequestsAre DEF Answered
<1>. HIDE DEF r
\* Those of the type are done, the request's own is there if it has an id, and no other is new.
<1>9. /\ \A s \in DOMAIN entities' :
           \/ s \in DOMAIN entities /\ kind[s] # kind[r] /\ entities'[s] = entities[s]
           \/ s \in DOMAIN entities /\ kind[s] = kind[r] /\ entities'[s] = Requests!Done(r)
           \/ /\ s = r /\ s \notin DOMAIN entities /\ entities'[s] = Requests!Done(r)
              /\ Requests!HasId(r)
      /\ DOMAIN entities \subseteq DOMAIN entities'
  <2>1. CASE Requests!OfType(r) # {}
    <3>1. entities' = Requests!With(Requests!OfType(r), Requests!Done(r))
      BY <1>7, <2>1 DEF Requests!Completed
    <3>. QED  BY <3>1 DEF Requests!With, Requests!OfType
  <2>2. CASE Requests!OfType(r) = {} /\ Requests!HasId(r)
    <3>1. entities' = Requests!With({r}, Requests!Done(r))
      BY <1>7, <2>2 DEF Requests!Completed
    <3>2. \A s \in DOMAIN entities : kind[s] # kind[r]
      BY <2>2 DEF Requests!OfType
    <3>. QED  BY <2>2, <3>1, <3>2 DEF Requests!With
  <2>3. CASE Requests!OfType(r) = {} /\ ~Requests!HasId(r)
    <3>1. entities' = entities
      BY <1>7, <2>3 DEF Requests!Completed
    <3>2. \A s \in DOMAIN entities : kind[s] # kind[r]
      BY <2>3 DEF Requests!OfType
    <3>. QED  BY <3>1, <3>2
  <2>. QED  BY <2>1, <2>2, <2>3
<1>10. /\ DOMAIN entities' \subseteq {s \in Requests!Made : how[s] # "plain"}
       /\ \A s \in DOMAIN entities' :
            entities'[s] \in {Requests!Busy} \cup {Requests!Done(t) : t \in Requests!Made}
       /\ calls' \subseteq Requests!Made /\ emits' \in {emits, <<>>}
       /\ DOMAIN entities' \cup calls' \subseteq
            DOMAIN entities \cup calls \cup (IF a.name = "remove" THEN {} ELSE {a.of})
  <2>1. DOMAIN entities \subseteq {s \in Requests!Made : how[s] # "plain"}
    BY <1>0 DEF RequestTypes
  <2>2. \A s \in DOMAIN entities :
          entities[s] \in {Requests!Busy} \cup {Requests!Done(t) : t \in Requests!Made}
    BY <1>0 DEF RequestTypes
  <2>. QED  BY <1>2, <1>3, <1>5, <1>8, <1>9, <2>1, <2>2 DEF Requests!HasId, r
\* No call of the type is left, if a newer one would have replaced it.
<1>11. ASSUME NEW s \in calls, kind[s] = kind[r]
       PROVE  kind[s] \in Merged
  BY <1>0, <1>3, <1>8, <1>11 DEF CallInv
<1>12. ASSUME NEW s \in calls' \cup Emitting', NEW t \in DOMAIN entities', kind[s] \notin Merged,
              kind[t] = kind[s]
       PROVE  t <= s
  <2>1. s \in calls \cup Answered /\ s \in calls \cup Emitting
    BY <1>5, <1>6, <1>8
  <2>2. CASE t \in DOMAIN entities
    BY <1>0, <1>12, <2>1, <2>2 DEF CallInv
  <2>3. CASE t = r
    <3>1. s \in Emitting
      BY <1>11, <1>12, <2>1, <2>3
    <3>2. s = r
      BY <1>0, <1>3, <3>1 DEF CallInv
    <3>. QED  BY <1>3, <1>8, <2>3, <3>2
  <2>. QED  BY <1>9, <2>2, <2>3
<1>13. ASSUME NEW s \in calls' \cup Emitting', NEW t \in calls', kind[s] \notin Merged,
              kind[s] = kind[t]
       PROVE  s = t /\ s \notin Emitting'
  <2>1. s \in calls \cup Answered /\ t \in calls
    BY <1>5, <1>6, <1>8
  <2>. QED  BY <1>0, <1>6, <1>8, <1>13, <2>1 DEF CallInv
<1>14. ASSUME NEW s \in DOMAIN entities', entities'[s].busy
       PROVE  \E t \in calls' : t >= s /\ kind[t] = kind[s]
  <2>1. s \in DOMAIN entities /\ entities[s].busy /\ kind[s] # kind[r]
    BY <1>9, <1>14, ProgressIs
  <2>2. PICK t \in Requests!Made : t >= s /\ kind[t] = kind[s]
                                   /\ (t \in calls \/ Requests!Queued(t))
    BY <1>0, <2>1 DEF Requests!BusyHasCall
  <2>3. t \in calls
    BY <1>4, <2>1, <2>2
  <2>. QED  BY <1>5, <2>2, <2>3
<1>15. ASSUME NEW s \in calls', Requests!HasId(s), kind[s] \notin Merged
       PROVE  s \in DOMAIN entities' /\ entities'[s].busy
  <2>1. s \in calls /\ s \in DOMAIN entities /\ entities[s].busy
    BY <1>0, <1>5, <1>15 DEF Requests!CallKeepsBusy
  <2>2. kind[s] # kind[r]
    BY <1>11, <1>15, <2>1
  <2>. QED  BY <1>9, <2>1, <2>2
<1>16. ASSUME NEW s \in DOMAIN entities', kind[s] \notin Merged, ~entities'[s].busy
       PROVE  entities'[s].of >= s /\ kind[entities'[s].of] = kind[s]
  <2>1. CASE s \in DOMAIN entities /\ kind[s] # kind[r]
    BY <1>0, <1>9, <1>16, <2>1 DEF ObserverInv
  <2>2. CASE s \in DOMAIN entities /\ kind[s] = kind[r]
    <3>1. s <= r
      BY <1>0, <1>3, <1>8, <1>16, <2>2 DEF CallInv
    <3>2. entities'[s].of = r
      BY <1>9, <2>2, ProgressIs
    <3>. QED  BY <1>3, <1>8, <2>2, <3>1, <3>2
  <2>3. CASE s = r /\ s \notin DOMAIN entities
    BY <1>3, <1>8, <1>9, <2>3, ProgressIs
  <2>. QED  BY <1>9, <2>1, <2>2, <2>3
<1>17. ASSUME NEW s \in Requests!Made, observer[s] = "told"
       PROVE  /\ s \notin calls'
              /\ s \in DOMAIN entities' /\ kind[s] \notin Deletions => s \in DOMAIN entities
  <2>1. s \notin calls' /\ how[s] = "dispatch" /\ kind[s] \notin Merged
    BY <1>0, <1>5, <1>17 DEF ObserverInv
  <2>2. s = r /\ kind[s] \notin Deletions => s \in DOMAIN entities
    BY <1>0, <1>3, <2>1 DEF CallInv, Requests!HasId
  <2>. QED  BY <1>9, <2>1, <2>2
<1>. QED  BY <1>2, <1>10, <1>12, <1>13, <1>14, <1>15, <1>16, <1>17 DEF ReducedWell

\* What the reducer and the effects make of a removal.
LEMMA RemovalReducedWell ==
  ASSUME RequestInv, queue # <<>>, NEW a, a = Head(queue), a.name = "remove", UNCHANGED made,
         entities' = Requests!Reduced(a), Requests!Effects(a)
  PROVE  ReducedWell(a)
<1>0. /\ RequestTypes /\ QueueInv /\ CallInv /\ ObserverInv
      /\ Requests!BusyHasCall /\ Requests!CallKeepsBusy /\ Requests!FreshOutcome
  BY DEF RequestInv
<1>1. a = queue[1] /\ 1 \in 1..Len(queue) /\ Len(queue) \in Nat /\ DOMAIN queue = 1..Len(queue)
  BY <1>0 DEF QueueInv
<1>2. \A r \in a.ids : r \in Requests!Made /\ observer[r] = "told"
  BY <1>0, <1>1 DEF QueueInv
<1>3. \A s : ~Requests!Queued(s)
  <2>1. ~Requests!Completes(a)
    BY DEF Requests!Completes
  <2>. QED  BY <1>0, <1>1, <2>1 DEF QueueInv, Requests!Queued
<1>4. UNCHANGED <<calls, emits>> /\ Requests!Made' = Requests!Made
  BY DEF Requests!Effects, Requests!Made
<1>5. Emitting' = Emitting
  BY <1>4 DEF Emitting
<1>6. entities' = [s \in DOMAIN entities \ a.ids |-> entities[s]]
  <2>1. a.name = "remove" /\ a.name # "start" /\ ~Requests!Completes(a)
    BY DEF Requests!Completes
  <2>. QED  BY <2>1 DEF Requests!Reduced
<1>7. /\ DOMAIN entities' = DOMAIN entities \ a.ids
      /\ \A s \in DOMAIN entities' : entities'[s] = entities[s]
  BY <1>6
<1>8. /\ calls \subseteq Requests!Made /\ DOMAIN entities \subseteq Requests!Made
      /\ Emitting \subseteq Requests!Made /\ Emitting \subseteq Answered
  BY <1>0, RequestsAre DEF Answered
<1>9. /\ DOMAIN entities' \subseteq {s \in Requests!Made : how[s] # "plain"}
      /\ \A s \in DOMAIN entities' :
           entities'[s] \in {Requests!Busy} \cup {Requests!Done(t) : t \in Requests!Made}
      /\ calls' \subseteq Requests!Made /\ emits' \in {emits, <<>>}
      /\ DOMAIN entities' \cup calls' \subseteq
           DOMAIN entities \cup calls \cup (IF a.name = "remove" THEN {} ELSE {a.of})
  BY <1>0, <1>4, <1>7 DEF RequestTypes
<1>10. \A s \in calls' \cup Emitting', r \in DOMAIN entities' :
         kind[s] \notin Merged /\ kind[r] = kind[s] => r <= s
  BY <1>0, <1>4, <1>5, <1>7, <1>8 DEF CallInv
<1>11. \A s \in calls' \cup Emitting', t \in calls' :
         kind[s] \notin Merged /\ kind[s] = kind[t] => s = t /\ s \notin Emitting'
  BY <1>0, <1>4, <1>5, <1>8 DEF CallInv
<1>12. \A r \in DOMAIN entities' : entities'[r].busy =>
         \E s \in calls' : s >= r /\ kind[s] = kind[r]
  BY <1>0, <1>3, <1>4, <1>7 DEF Requests!BusyHasCall
<1>13. ASSUME NEW r \in calls', Requests!HasId(r), kind[r] \notin Merged
       PROVE  r \in DOMAIN entities' /\ entities'[r].busy
  <2>1. r \in calls /\ r \in DOMAIN entities /\ entities[r].busy
    BY <1>0, <1>4, <1>13 DEF Requests!CallKeepsBusy
  <2>2. r \notin a.ids
    BY <1>0, <1>2, <2>1 DEF ObserverInv
  <2>. QED  BY <1>7, <2>1, <2>2
<1>14. \A r \in DOMAIN entities' : kind[r] \notin Merged /\ ~entities'[r].busy =>
         entities'[r].of >= r /\ kind[entities'[r].of] = kind[r]
  BY <1>0, <1>7 DEF ObserverInv
<1>15. \A r \in Requests!Made : observer[r] = "told" =>
         /\ r \notin calls'
         /\ r \in DOMAIN entities' => r \in DOMAIN entities /\ r \notin a.ids
  BY <1>0, <1>4, <1>7 DEF ObserverInv
<1>. QED  BY <1>9, <1>10, <1>11, <1>12, <1>13, <1>14, <1>15 DEF ReducedWell

\* A sequence with one more message at its end.
LEMMA OneMore ==
  ASSUME NEW S, NEW s \in Seq(S), NEW e \in S
  PROVE  /\ s \o <<e>> \in Seq(S) /\ Len(s \o <<e>>) = Len(s) + 1
         /\ (s \o <<e>>)[Len(s) + 1] = e
         /\ \A j \in 1..Len(s) : (s \o <<e>>)[j] = s[j]
<1>1. Append(s, e) = s \o <<e>>
  BY AppendIsConcat
<1>. QED  BY <1>1, AppendProperties

\* An action that is taken from the queue keeps the invariant.
LEMMA ReduceKeepsInv ==
  ASSUME RequestInv, Requests!Reduce
  PROVE  RequestInv'
<1>0. /\ RequestTypes /\ QueueInv /\ CallInv /\ ObserverInv
      /\ Requests!BusyHasCall /\ Requests!CallKeepsBusy /\ Requests!FreshOutcome
  BY DEF RequestInv
<1>1. PICK a : a = Head(queue)
  OBVIOUS
<1>2. PICK R : R = {r \in Requests!Made : Requests!Finished(r)}
  OBVIOUS
<1>3. /\ queue # <<>> /\ UNCHANGED <<made, kind, how>> /\ Requests!Made' = Requests!Made
      /\ entities' = Requests!Reduced(a) /\ Requests!Effects(a)
      /\ observer' = [r \in Requests!Made |-> IF r \in R THEN "told" ELSE observer[r]]
      /\ told' = [r \in Requests!Made |-> IF r \in R THEN entities'[r].of ELSE told[r]]
      /\ queue' = Tail(queue) \o Requests!Removals(R)
  BY <1>1, <1>2 DEF Requests!Reduce, Requests!Made
<1>4. /\ a = queue[1] /\ 1 \in 1..Len(queue) /\ Len(queue) \in Nat /\ a \in Requests!Actions
      /\ DOMAIN queue = 1..Len(queue)
  BY <1>0, <1>1, <1>3 DEF QueueInv
<1>5. ReducedWell(a)
  <2>1. a.name = "start" \/ a.name = "remove" \/ Requests!Completes(a)
    BY <1>4, ActionsAre
  <2>. QED  BY <1>1, <1>3, <2>1, StartReducedWell, CompletionReducedWell, RemovalReducedWell
<1>6. /\ Requests!Made \subseteq Nat \ {0} /\ Requests!Made \subseteq Requests!Requests
      /\ made \in Nat /\ calls \subseteq Requests!Made /\ DOMAIN entities \subseteq Requests!Made
      /\ Emitting \subseteq Answered /\ Completing \subseteq Answered /\ Answered \subseteq Requests!Made
  BY <1>0, RequestsAre DEF Answered
<1>7. \A r \in R : /\ r \in Requests!Made /\ observer[r] = "waiting"
                   /\ r \in DOMAIN entities' /\ ~entities'[r].busy
                   /\ how[r] = "dispatch" /\ kind[r] \notin Merged
  BY <1>0, <1>2 DEF Requests!Finished, ObserverInv
\* The queue.
<1>8. /\ queue' \in Seq(Requests!Actions)
      /\ \A j \in 1..Len(queue') :
           \/ j + 1 \in 1..Len(queue) /\ queue'[j] = queue[j + 1]
           \/ queue'[j] = Requests!Removal(R) /\ R # {} /\ j = Len(queue)
      /\ \A j \in 1..Len(queue) : j # 1 => j - 1 \in 1..Len(queue') /\ queue'[j - 1] = queue[j]
      /\ R # {} => Len(queue) \in 1..Len(queue') /\ queue'[Len(queue)] = Requests!Removal(R)
  <2>1. /\ Tail(queue) \in Seq(Requests!Actions) /\ Len(Tail(queue)) = Len(queue) - 1
        /\ \A j \in 1..(Len(queue) - 1) : Tail(queue)[j] = queue[j + 1]
    BY <1>0, <1>3, HeadTailProperties DEF QueueInv
  <2>2. CASE R = {}
    <3>1. queue' = Tail(queue)
      BY <1>3, <2>1, <2>2, ConcatEmptySeq DEF Requests!Removals
    <3>2. \A j \in 1..Len(queue) : j # 1 => j - 1 \in 1..(Len(queue) - 1) /\ (j - 1) + 1 = j
      BY <1>4
    <3>. QED  BY <1>4, <2>1, <2>2, <3>1, <3>2
  <2>3. CASE R # {}
    <3>. DEFINE last == Requests!Removal(R)
                tail == Tail(queue)
                one == <<last>>
    <3>1. last \in Requests!Actions
      <4>1. R \in SUBSET Requests!Requests
        BY <1>6, <1>7
      <4>. QED  BY <4>1, MessagesAreActions
    <3>2. queue' = tail \o one
      BY <1>3, <2>3 DEF Requests!Removals
    <3>. HIDE DEF last, tail
    <3>3. /\ tail \in Seq(Requests!Actions) /\ Len(tail) = Len(queue) - 1
          /\ \A j \in 1..(Len(queue) - 1) : tail[j] = queue[j + 1]
      BY <2>1 DEF tail
    <3>4. PICK n : n = Len(queue) /\ n \in Nat \ {0}
      BY <1>4
    <3>5. /\ queue' \in Seq(Requests!Actions) /\ Len(queue') = Len(tail) + 1
          /\ queue'[Len(tail) + 1] = last
          /\ \A j \in 1..Len(tail) : queue'[j] = tail[j]
      BY <3>1, <3>2, <3>3, OneMore DEF one
    <3>6. Len(tail) = n - 1 /\ Len(tail) + 1 = n
      BY <3>3, <3>4
    <3>7. Len(queue') = n /\ queue'[n] = last /\ \A j \in 1..(n - 1) : queue'[j] = tail[j]
      BY <3>5, <3>6
    <3>8. \A j \in 1..(n - 1) : queue'[j] = queue[j + 1]
      BY <3>3, <3>4, <3>7
    <3>9. /\ \A j \in 1..n : j \in 1..(n - 1) \/ j = n
          /\ \A j \in 1..(n - 1) : j + 1 \in 1..n
          /\ \A j \in 1..n : j # 1 => j - 1 \in 1..(n - 1) /\ j - 1 \in 1..n /\ (j - 1) + 1 = j
          /\ n \in 1..n
      BY <3>4
    <3>. HIDE DEF one
    <3>10. \A j \in 1..Len(queue') :
             \/ j + 1 \in 1..Len(queue) /\ queue'[j] = queue[j + 1]
             \/ queue'[j] = last /\ j = Len(queue)
      BY <3>4, <3>7, <3>8, <3>9
    <3>11. \A j \in 1..Len(queue) : j # 1 => j - 1 \in 1..Len(queue') /\ queue'[j - 1] = queue[j]
      BY <3>4, <3>7, <3>8, <3>9
    <3>12. Len(queue) \in 1..Len(queue') /\ queue'[Len(queue)] = last
      BY <3>4, <3>7, <3>9
    <3>. QED  BY <2>3, <3>5, <3>10, <3>11, <3>12 DEF last
  <2>. QED  BY <2>2, <2>3
<1>9. Completing' = {} /\ Answered' = Emitting' /\ Emitting' \subseteq Emitting
      /\ \A s : ~Requests!Queued(s)'
  <2>1. \A j \in 1..Len(queue') : ~Requests!Completes(queue'[j])
    <3>1. ASSUME NEW j \in 1..Len(queue')
          PROVE  ~Requests!Completes(queue'[j])
      <4>1. CASE queue'[j] = Requests!Removal(R)
        BY <4>1, Messages
      <4>2. CASE j + 1 \in 1..Len(queue) /\ queue'[j] = queue[j + 1]
        <5>1. PICK i \in 1..Len(queue) : i = j + 1
          BY <4>2
        <5>2. i # 1
          BY <5>1
        <5>3. ~Requests!Completes(queue[i])
          BY <1>0, <5>2 DEF QueueInv
        <5>. QED  BY <4>2, <5>1, <5>3
      <4>. QED  BY <1>8, <4>1, <4>2
    <3>. QED  BY <3>1
  <2>2. \A s : ~Requests!Queued(s)'
    BY <1>8, <2>1 DEF Requests!Queued
  <2>3. Completing' = {}
    BY <2>2 DEF Completing
  <2>4. Emitting' \subseteq Emitting
    BY <1>3, <1>5 DEF Emitting, ReducedWell
  <2>. QED  BY <2>2, <2>3, <2>4 DEF Answered
\* The observers.
<1>10. /\ \A r \in Requests!Made : /\ observer'[r] = IF r \in R THEN "told" ELSE observer[r]
                                   /\ told'[r] = IF r \in R THEN entities'[r].of ELSE told[r]
       /\ observer' \in [1..made -> {"none", "waiting", "told", "gone"}]
       /\ told' \in [1..made -> 0..made]
  <2>1. \A r \in Requests!Made : observer[r] \in {"none", "waiting", "told", "gone"}
                                 /\ told[r] \in 0..made
    BY <1>0 DEF RequestTypes, Requests!Made
  <2>2. \A r \in R : entities'[r].of \in 0..made
    <3>1. ASSUME NEW r \in R
          PROVE  entities'[r].of \in 0..made
      <4>1. entities'[r] \in {Requests!Done(s) : s \in Requests!Made}
        BY <1>5, <1>7, <3>1, ProgressIs DEF ReducedWell
      <4>2. entities'[r].of \in Requests!Made
        BY <4>1, ProgressIs
      <4>. QED  BY <1>6, <4>2 DEF Requests!Made
    <3>. QED  BY <3>1
  <2>. QED  BY <1>3, <2>1, <2>2 DEF Requests!Made
<1>11. RequestTypes'
  <2>1. /\ observer' \in Seq({"none", "waiting", "told", "gone"}) /\ Len(observer') = made
        /\ told' \in Seq(0..made) /\ Len(told') = made
    BY <1>6, <1>10, FunctionsAreSequences
  <2>2. emits' = <<>> \/ \E s \in Requests!Made :
                           emits' = <<Requests!Success(s)>> /\ kind[s] \in Deletions
    BY <1>0, <1>5 DEF RequestTypes, ReducedWell
  <2>. QED  BY <1>0, <1>3, <1>5, <2>1, <2>2 DEF RequestTypes, ReducedWell
<1>12. QueueInv'
  <2>1. ASSUME NEW j \in 1..Len(queue')
        PROVE  /\ ~Requests!Completes(queue'[j])
               /\ queue'[j].name = "start" =>
                    /\ queue'[j].of \in Requests!Made /\ observer'[queue'[j].of] # "told"
                    /\ \A s \in calls' \cup DOMAIN entities' \cup Answered' : s < queue'[j].of
               /\ queue'[j].name = "remove" =>
                    \A r \in queue'[j].ids : r \in Requests!Made /\ observer'[r] = "told"
    <3>1. CASE queue'[j] = Requests!Removal(R)
      BY <1>7, <1>10, <3>1, Messages
    <3>2. ASSUME j + 1 \in 1..Len(queue), queue'[j] = queue[j + 1]
          PROVE  /\ ~Requests!Completes(queue'[j])
                 /\ queue'[j].name = "start" =>
                      /\ queue'[j].of \in Requests!Made /\ observer'[queue'[j].of] # "told"
                      /\ \A s \in calls' \cup DOMAIN entities' \cup Answered' : s < queue'[j].of
                 /\ queue'[j].name = "remove" =>
                      \A r \in queue'[j].ids : r \in Requests!Made /\ observer'[r] = "told"
      <4>1. PICK i \in 1..Len(queue) : i = j + 1 /\ i # 1 /\ 1 < i /\ queue'[j] = queue[i]
        BY <1>8, <3>2
      <4>2. ~Requests!Completes(queue'[j])
        BY <1>0, <4>1 DEF QueueInv
      <4>3. ASSUME queue[i].name = "start"
            PROVE  /\ queue[i].of \in Requests!Made /\ observer'[queue[i].of] # "told"
                   /\ \A s \in calls' \cup DOMAIN entities' \cup Answered' : s < queue[i].of
        <5>1. /\ queue[i].of \in Requests!Made /\ observer[queue[i].of] # "told"
              /\ \A s \in calls \cup DOMAIN entities \cup Answered : s < queue[i].of
          BY <1>0, <4>3 DEF QueueInv
        <5>2. a.name # "remove" => a.of < queue[i].of
          <6>1. CASE a.name = "start"
            BY <1>0, <1>4, <4>1, <4>3, <6>1 DEF QueueInv
          <6>2. CASE Requests!Completes(a)
            <7>1. a.of \in Completing
              BY <1>0, <1>4, <6>2 DEF Completing, Requests!Queued, QueueInv
            <7>. QED  BY <1>6, <5>1, <7>1
          <6>. QED  BY <1>4, <6>1, <6>2, ActionsAre
        <5>3. \A s \in calls' \cup DOMAIN entities' \cup Answered' : s < queue[i].of
          <6>1. DOMAIN entities' \cup calls' \subseteq
                  DOMAIN entities \cup calls \cup (IF a.name = "remove" THEN {} ELSE {a.of})
            BY <1>5 DEF ReducedWell
          <6>2. Answered' \subseteq Answered
            BY <1>9 DEF Answered
          <6>3. \A s \in calls' \cup DOMAIN entities' \cup Answered' :
                  s \in calls \cup DOMAIN entities \cup Answered \/ (a.name # "remove" /\ s = a.of)
            BY <6>1, <6>2
          <6>4. ASSUME NEW s \in calls' \cup DOMAIN entities' \cup Answered'
                PROVE  s < queue[i].of
            <7>1. CASE s \in calls \cup DOMAIN entities \cup Answered
              BY <5>1, <7>1
            <7>2. CASE a.name # "remove" /\ s = a.of
              BY <5>2, <7>2
            <7>. QED  BY <6>3, <7>1, <7>2
          <6>. QED  BY <6>4
        <5>4. queue[i].of \notin R
          <6>1. ASSUME queue[i].of \in R
                PROVE  FALSE
            <7>1. queue[i].of \in DOMAIN entities'
              BY <1>7, <6>1
            <7>2. queue[i].of < queue[i].of
              BY <5>3, <7>1
            <7>3. queue[i].of \in Nat
              BY <1>6, <5>1
            <7>. QED  BY <7>2, <7>3
          <6>. QED  BY <6>1
        <5>. QED  BY <1>10, <5>1, <5>3, <5>4
      <4>4. queue[i].name = "remove" =>
              \A r \in queue[i].ids : r \in Requests!Made /\ observer'[r] = "told"
        BY <1>0, <1>10 DEF QueueInv
      <4>. QED  BY <4>1, <4>2, <4>3, <4>4
    <3>. QED  BY <1>8, <3>1, <3>2
  <2>2. ASSUME NEW i \in 1..Len(queue'), NEW j \in 1..Len(queue'), i < j,
               queue'[i].name = "start", queue'[j].name = "start"
        PROVE  queue'[i].of < queue'[j].of
    <3>1. /\ i + 1 \in 1..Len(queue) /\ queue'[i] = queue[i + 1]
          /\ j + 1 \in 1..Len(queue) /\ queue'[j] = queue[j + 1]
      BY <1>8, <2>2, Messages
    <3>2. i + 1 < j + 1
      BY <2>2
    <3>3. \A k, l \in 1..Len(queue) :
            k < l /\ queue[k].name = "start" /\ queue[l].name = "start"
              => queue[k].of < queue[l].of
      BY <1>0 DEF QueueInv
    <3>4. queue[i + 1].name = "start" /\ queue[j + 1].name = "start"
      BY <2>2, <3>1
    <3>5. queue[i + 1].of < queue[j + 1].of
      BY <3>1, <3>2, <3>3, <3>4
    <3>. QED  BY <3>1, <3>5
  <2>. QED  BY <1>3, <1>8, <2>1, <2>2 DEF QueueInv
<1>13. CallInv'
  BY <1>3, <1>5, <1>9 DEF CallInv, ReducedWell
<1>14. ObserverInv'
  <2>1. ASSUME NEW r \in Requests!Made
        PROVE  /\ observer'[r] # "none" <=> how[r] = "dispatch"
               /\ how[r] = "dispatch" => kind[r] \notin Merged
               /\ observer'[r] = "waiting" /\ r \in DOMAIN entities' => entities'[r].busy
    BY <1>0, <1>2, <1>7, <1>10 DEF ObserverInv, Requests!Finished
  <2>2. ASSUME NEW r \in Requests!Made, observer'[r] = "told"
        PROVE  r \notin calls'
    <3>1. CASE r \in R
      BY <1>5, <1>7, <3>1 DEF ReducedWell, Requests!HasId
    <3>2. CASE r \notin R
      BY <1>5, <1>10, <2>2, <3>2 DEF ReducedWell
    <3>. QED  BY <3>1, <3>2
  <2>3. ASSUME NEW r \in Requests!Made, observer'[r] = "told", r \in DOMAIN entities',
               kind[r] \notin Deletions
        PROVE  \E i \in 1..Len(queue') : queue'[i].name = "remove" /\ r \in queue'[i].ids
    <3>1. CASE r \in R
      BY <1>8, <3>1, Messages
    <3>2. CASE r \notin R
      <4>1. observer[r] = "told" /\ r \in DOMAIN entities /\ ~(a.name = "remove" /\ r \in a.ids)
        BY <1>5, <1>10, <2>3, <3>2 DEF ReducedWell
      <4>2. PICK i \in 1..Len(queue) : queue[i].name = "remove" /\ r \in queue[i].ids
        BY <1>0, <2>3, <4>1 DEF ObserverInv
      <4>3. i # 1
        BY <1>4, <4>1, <4>2
      <4>. QED  BY <1>8, <4>2, <4>3
    <3>. QED  BY <3>1, <3>2
  <2>. QED  BY <1>3, <1>5, <2>1, <2>2, <2>3 DEF ObserverInv, ReducedWell
<1>15. Requests!BusyHasCall' /\ Requests!CallKeepsBusy'
  <2>1. Requests!BusyHasCall'
    BY <1>3, <1>5 DEF Requests!BusyHasCall, ReducedWell
  <2>2. Requests!CallKeepsBusy'
    BY <1>3, <1>5 DEF Requests!CallKeepsBusy, Requests!HasId, ReducedWell
  <2>. QED  BY <2>1, <2>2
<1>16. Requests!FreshOutcome'
  <2>1. ASSUME NEW r \in Requests!Made, observer'[r] = "told"
        PROVE  told'[r] >= r /\ kind[told'[r]] = kind[r]
    <3>1. CASE r \in R
      BY <1>5, <1>7, <1>10, <3>1 DEF ReducedWell
    <3>2. CASE r \notin R
      BY <1>0, <1>10, <2>1, <3>2 DEF Requests!FreshOutcome
    <3>. QED  BY <3>1, <3>2
  <2>. QED  BY <1>3, <2>1 DEF Requests!FreshOutcome
<1>. QED  BY <1>11, <1>12, <1>13, <1>14, <1>15, <1>16 DEF RequestInv

\* Every step of the requests keeps their invariant.
LEMMA RequestInvKept ==
  ASSUME RequestInv, [Requests!Next]_requestVars
  PROVE  RequestInv'
<1>1. CASE UNCHANGED requestVars
  <2>1. /\ UNCHANGED <<made, kind, how, queue, entities, calls, emits, observer, told>>
        /\ Completing' = Completing /\ Emitting' = Emitting /\ Answered' = Answered
        /\ Requests!Made' = Requests!Made
        /\ \A s : Requests!Queued(s)' <=> Requests!Queued(s)
    BY <1>1 DEF requestVars, Completing, Emitting, Answered, Requests!Made, Requests!Queued
  <2>. QED
    BY <2>1 DEF RequestInv, RequestTypes, QueueInv, CallInv, ObserverInv, Requests!BusyHasCall,
       Requests!CallKeepsBusy, Requests!FreshOutcome, Requests!HasId
<1>. QED
  BY <1>1, DispatchKeepsInv, UnsubscribeKeepsInv, RespondKeepsInv, ReduceKeepsInv, EmitKeepsInv
  DEF Requests!Next

\* The invariant of the requests gives their types and their property.
LEMMA RequestsFit ==
  ASSUME RequestInv
  PROVE  Requests!NothingLeft /\ Requests!TypeOK
<1>0. RequestTypes /\ QueueInv /\ ObserverInv /\ Requests!BusyHasCall
  BY DEF RequestInv
<1>1. Requests!NothingLeft
  <2>1. ASSUME queue = <<>>, calls = {}, NEW r \in DOMAIN entities, how[r] # "watch",
               observer[r] # "gone"
        PROVE  kind[r] \in Deletions
    <3>1. r \in Requests!Made /\ how[r] = "dispatch"
      BY <1>0, <2>1 DEF RequestTypes, Requests!Hows, Requests!Made
    <3>2. ~entities[r].busy
      BY <1>0, <2>1 DEF Requests!BusyHasCall, Requests!Queued
    <3>3. observer[r] = "told"
      BY <1>0, <2>1, <3>1, <3>2 DEF ObserverInv, RequestTypes, Requests!Made
    <3>4. ~\E i \in 1..Len(queue) : queue[i].name = "remove"
      BY <2>1
    <3>. QED  BY <1>0, <3>1, <3>3, <3>4 DEF ObserverInv
  <2>. QED  BY <2>1 DEF Requests!NothingLeft, Requests!Idle
<1>2. Requests!TypeOK
  <2>1. /\ kind \in [Requests!Made -> Types] /\ how \in [Requests!Made -> Requests!Hows]
        /\ observer \in [Requests!Made -> {"none", "waiting", "told", "gone"}]
        /\ told \in [Requests!Made -> 0..made]
    BY <1>0 DEF RequestTypes, Requests!Made
  <2>2. \A i \in DOMAIN queue : queue[i] \in Requests!Actions
    BY <1>0 DEF QueueInv
  <2>3. \A i \in DOMAIN emits : emits[i] \in Requests!Actions
    <3>1. ASSUME NEW s \in Requests!Made, emits = <<Requests!Success(s)>>
          PROVE  \A i \in DOMAIN emits : emits[i] \in Requests!Actions
      <4>1. Requests!Success(s) \in Requests!Actions
        BY <1>0, RequestsAre, MessagesAreActions
      <4>. QED  BY <3>1, <4>1
    <3>2. emits = <<>> => DOMAIN emits = {}
      OBVIOUS
    <3>. QED  BY <1>0, <3>1, <3>2 DEF RequestTypes
  <2>. QED  BY <1>0, <2>1, <2>2, <2>3 DEF RequestTypes, Requests!TypeOK
<1>. QED  BY <1>1, <1>2

-----------------------------------------------------------------------------
(* The dialog of an account. *)

KeyCalls == {CloudAccount!Call(keys) : keys \in AccessKeys \cup {"", "profile"}}
TakenNames == Accounts \cup {""}

AccountTypes ==
  /\ open \in BOOLEAN /\ account \in Accounts \cup {""} /\ form \in CloudAccount!Forms
  /\ isValidationInProgress \in BOOLEAN /\ isSaveInProgress \in BOOLEAN
  /\ progress \in [validate : CloudAccount!PROGRESS_STATUS, keys : AccessKeys \cup {""},
                   add : CloudAccount!PROGRESS_STATUS]
  /\ validation \in {CloudAccount!Call(keys) : keys \in AccessKeys} \cup {CloudAccount!NoCall}
  /\ addition \in KeyCalls \cup {CloudAccount!NoCall}
  /\ update \in [phase : {"none", "sent"}, here : BOOLEAN]
  /\ validated \subseteq AccessKeys

\* What may be saved: keys that were validated, under a name that is free if it is new.
Saveable ==
  [name : Names \cup Accounts, keys : validated \cup {"profile"}, new : {FALSE}]
    \cup [name : (Names \cup Accounts) \ Accounts, keys : validated \cup {"profile"}, new : {TRUE}]

\* An open form without an error has a free name; a success is that of keys found valid;
\* a form that is closed waits for nothing, and one that saves waits for its own call.
AccountInv ==
  /\ AccountTypes
  /\ saved \subseteq Saveable
  /\ progress.validate = "success" => progress.keys \in validated
  /\ open /\ account # "" => form.name = account
  /\ open /\ account = "" /\ ~form.nameError => form.name \notin TakenNames
  /\ ~open => ~isValidationInProgress /\ ~isSaveInProgress
  /\ isValidationInProgress => validation # CloudAccount!NoCall
  /\ isSaveInProgress =>
       addition # CloudAccount!NoCall \/ (update.phase = "sent" /\ update.here)

\* What is no call, a call, and no update.
LEMMA AccountCalls ==
  /\ CloudAccount!NoUpdate = [phase |-> "none", here |-> FALSE]
  /\ \A keys : /\ CloudAccount!Call(keys) # CloudAccount!NoCall
               /\ CloudAccount!Call(keys).keys = keys /\ CloudAccount!Call(keys).phase = "sent"
  /\ CloudAccount!NoCall.phase = "none"
  BY DEF CloudAccount!NoUpdate, CloudAccount!Call, CloudAccount!NoCall

\* Keys of a call are keys there are.
LEMMA ValidatedKeys ==
  ASSUME NEW c \in {CloudAccount!Call(keys) : keys \in AccessKeys} \cup {CloudAccount!NoCall}
  PROVE  c.phase \in {"none", "sent"} /\ (c # CloudAccount!NoCall => c.keys \in AccessKeys)
<1>1. ASSUME NEW keys \in AccessKeys, c = CloudAccount!Call(keys)
      PROVE  c.phase \in {"none", "sent"} /\ c.keys \in AccessKeys
  BY <1>1, AccountCalls
<1>. QED  BY <1>1, AccountCalls

\* Forms for an account, and what forms are made of.
LEMMA FormsAre ==
  /\ \A a \in Accounts \cup {""} :
       /\ CloudAccount!FormFor(a) \in CloudAccount!Forms
       /\ CloudAccount!FormFor(a).name = a /\ CloudAccount!FormFor(a).nameError = (a = "")
  /\ \A f \in CloudAccount!Forms :
       /\ f.name \in Names \cup Accounts \cup {""} /\ f.auth \in CloudAccount!AuthTypes
       /\ f.keys \in AccessKeys \cup {""} /\ f.nameError \in BOOLEAN /\ f.wrong \in BOOLEAN
  BY DEF CloudAccount!FormFor, CloudAccount!Forms, CloudAccount!AuthTypes

\* The invariant of the dialog of an account holds at first.
LEMMA AccountInvStarts ==
  ASSUME Init
  PROVE  AccountInv
<1>1. CloudAccount!InitialProgress \in [validate : CloudAccount!PROGRESS_STATUS,
        keys : AccessKeys \cup {""}, add : CloudAccount!PROGRESS_STATUS]
      /\ CloudAccount!InitialProgress.validate = "init"
  BY DEF CloudAccount!InitialProgress, CloudAccount!PROGRESS_STATUS
<1>2. CloudAccount!Init
  BY DEF Init
<1>. QED
  BY <1>1, <1>2, FormsAre, AccountCalls DEF CloudAccount!Init, AccountInv, AccountTypes

\* What the answers do to the form, and what is left of the invariant to show.
LEMMA ProgressedKeepsInv ==
  ASSUME AccountInv,
         NEW p \in [validate : CloudAccount!PROGRESS_STATUS, keys : AccessKeys \cup {""},
                    add : CloudAccount!PROGRESS_STATUS],
         CloudAccount!Progressed(p), validated \subseteq validated', validated' \subseteq AccessKeys,
         p.validate = "success" => p.keys \in validated', UNCHANGED saved,
         validation' \in {validation, CloudAccount!NoCall},
         addition' \in {addition, CloudAccount!NoCall}
  PROVE  AccountInv'
<1>1. progress' = p
  BY DEF CloudAccount!Progressed
<1>2. CASE ~open
  <2>1. UNCHANGED <<open, account, form, isValidationInProgress, isSaveInProgress, update>>
    BY <1>2 DEF CloudAccount!Progressed, CloudAccount!flags
  <2>. QED  BY <1>1, <1>2, <2>1 DEF AccountInv, AccountTypes, Saveable
<1>3. CASE open
  <2>1. /\ form' = [form EXCEPT !.wrong = @ \/ p.validate = "failed"]
        /\ isValidationInProgress' = FALSE /\ isSaveInProgress' = FALSE
        /\ \/ open' = FALSE /\ account' = "" /\ update' = CloudAccount!Left(update)
           \/ UNCHANGED <<open, account, update>>
    BY <1>3 DEF CloudAccount!Progressed
  <2>2. /\ form' \in CloudAccount!Forms
        /\ form'.name = form.name /\ form'.nameError = form.nameError
    <3>. DEFINE wrong == form.wrong \/ p.validate = "failed"
    <3>1. wrong \in BOOLEAN
      OBVIOUS
    <3>2. form' = [form EXCEPT !.wrong = wrong]
      BY <2>1
    <3>. HIDE DEF wrong
    <3>. QED  BY <3>1, <3>2 DEF AccountInv, AccountTypes, CloudAccount!Forms
  <2>3. update' \in [phase : {"none", "sent"}, here : BOOLEAN]
    BY <2>1 DEF AccountInv, AccountTypes, CloudAccount!Left
  <2>. QED  BY <1>1, <1>3, <2>1, <2>2, <2>3 DEF AccountInv, AccountTypes, Saveable
<1>. QED  BY <1>2, <1>3 DEF AccountInv, AccountTypes

\* A change of the form, by the user or by the buttons.
LEMMA EditedKeepsInv ==
  ASSUME AccountInv, form' \in CloudAccount!Forms,
         UNCHANGED <<open, account, progress, validated, isValidationInProgress, isSaveInProgress,
                     validation, addition, update, saved>>,
         account # "" => form'.name = form.name,
         account = "" /\ ~form'.nameError => form'.name \notin TakenNames
  PROVE  AccountInv'
  BY DEF AccountInv, AccountTypes, Saveable

\* A form whose name is compared with those there are.
LEMMA TrackedForm ==
  ASSUME NEW f \in CloudAccount!Forms, account \in Accounts \cup {""}
  PROVE  /\ CloudAccount!Tracked(f) \in CloudAccount!Forms
         /\ CloudAccount!Tracked(f).name = f.name
         /\ account = "" /\ ~CloudAccount!Tracked(f).nameError => f.name \notin TakenNames
         /\ CloudAccount!ErrorsReset(f) \in CloudAccount!Forms
         /\ CloudAccount!ErrorsReset(f).name = f.name
<1>. DEFINE wrong == CloudAccount!NameInvalid(f.name)
<1>1. wrong = (account = "" /\ f.name \in TakenNames)
  BY DEF CloudAccount!NameInvalid, CloudAccount!isEditMode, TakenNames
<1>2. wrong \in BOOLEAN
  BY <1>1
<1>3. CloudAccount!Tracked(f) = [f EXCEPT !.wrong = FALSE, !.nameError = wrong]
  BY DEF CloudAccount!Tracked
<1>. HIDE DEF wrong
<1>4. /\ CloudAccount!Tracked(f) \in CloudAccount!Forms /\ CloudAccount!Tracked(f).name = f.name
      /\ CloudAccount!Tracked(f).nameError = wrong
  BY <1>2, <1>3 DEF CloudAccount!Forms
<1>5. CloudAccount!ErrorsReset(f) \in CloudAccount!Forms /\ CloudAccount!ErrorsReset(f).name = f.name
  BY DEF CloudAccount!Forms, CloudAccount!ErrorsReset
<1>. QED  BY <1>1, <1>4, <1>5

\* Every step of the dialog keeps its invariant.
LEMMA AccountInvKept ==
  ASSUME AccountInv, [CloudAccount!Next]_accountVars
  PROVE  AccountInv'
<1>. USE AccountCalls
<1>0. /\ AccountTypes /\ form \in CloudAccount!Forms /\ account \in Accounts \cup {""}
      /\ "" \notin Names \cup Accounts /\ AccessKeys \cap {"", "profile"} = {}
  BY WebPagesConstants DEF AccountInv, AccountTypes, CloudAccount!AccountFormConstants
<1>1. CASE UNCHANGED accountVars
  <2>1. UNCHANGED <<open, form, account, progress, validated, isValidationInProgress,
                    isSaveInProgress, validation, addition, update, saved>>
    BY <1>1 DEF accountVars
  <2>2. AccountTypes' /\ Saveable' = Saveable
    BY <2>1 DEF AccountInv, AccountTypes, Saveable
  <2>. QED  BY <2>1, <2>2 DEF AccountInv
<1>2. ASSUME NEW a \in Accounts \cup {""}, NEW auth \in CloudAccount!AuthTypes,
             CloudAccount!Show(a, auth)
      PROVE  AccountInv'
  <2>1. /\ form' = [CloudAccount!FormFor(a) EXCEPT !.auth = auth] /\ account' = a
        /\ progress' = CloudAccount!InitialProgress
        /\ UNCHANGED <<isValidationInProgress, isSaveInProgress, validation, addition, update,
                       validated, saved>>
        /\ open' = TRUE /\ ~open
    BY <1>2 DEF CloudAccount!Show, CloudAccount!flags
  <2>2. form' \in CloudAccount!Forms /\ form'.name = a /\ form'.nameError = (a = "")
    <3>1. /\ CloudAccount!FormFor(a) \in CloudAccount!Forms
          /\ CloudAccount!FormFor(a).name = a /\ CloudAccount!FormFor(a).nameError = (a = "")
      BY FormsAre
    <3>. QED  BY <2>1, <3>1 DEF CloudAccount!Forms
  <2>3. progress' \in [validate : CloudAccount!PROGRESS_STATUS, keys : AccessKeys \cup {""},
                       add : CloudAccount!PROGRESS_STATUS]
        /\ progress'.validate = "init"
    BY <2>1 DEF CloudAccount!InitialProgress, CloudAccount!PROGRESS_STATUS
  <2>. QED  BY <2>1, <2>2, <2>3 DEF AccountInv, AccountTypes, Saveable
<1>3. CASE CloudAccount!Hide \/ CloudAccount!CancelButton
  <2>1. /\ open' = FALSE /\ isValidationInProgress' = FALSE /\ isSaveInProgress' = FALSE
        /\ update' = CloudAccount!Left(update) /\ account' \in {account, ""}
        /\ UNCHANGED <<form, validation, addition, validated, saved>>
        /\ progress' \in {progress, CloudAccount!InitialProgress}
    BY <1>3 DEF CloudAccount!Hide, CloudAccount!CancelButton, CloudAccount!Closed
  <2>2. update' \in [phase : {"none", "sent"}, here : BOOLEAN]
    BY <1>0, <2>1 DEF AccountTypes, CloudAccount!Left
  <2>3. CloudAccount!InitialProgress \in [validate : CloudAccount!PROGRESS_STATUS,
          keys : AccessKeys \cup {""}, add : CloudAccount!PROGRESS_STATUS]
        /\ CloudAccount!InitialProgress.validate = "init"
    BY DEF CloudAccount!InitialProgress, CloudAccount!PROGRESS_STATUS
  <2>. QED  BY <2>1, <2>2, <2>3 DEF AccountInv, AccountTypes, Saveable
<1>4. ASSUME NEW name \in Names \cup {""}, CloudAccount!EditName(name)
      PROVE  AccountInv'
  <2>. DEFINE f == [form EXCEPT !.name = name]
  <2>1. f \in CloudAccount!Forms /\ account = ""
    BY <1>0, <1>4 DEF CloudAccount!Forms, CloudAccount!EditName, CloudAccount!isEditMode
  <2>2. /\ form' = CloudAccount!Tracked(f)
        /\ UNCHANGED <<open, account, progress, validated, isValidationInProgress,
                       isSaveInProgress, validation, addition, update, saved>>
    BY <1>4 DEF CloudAccount!EditName, CloudAccount!Edit, CloudAccount!flags
  <2>. HIDE DEF f
  <2>. QED  BY <1>0, <2>1, <2>2, TrackedForm, EditedKeepsInv
<1>5. ASSUME NEW keys \in AccessKeys \cup {""}, CloudAccount!EditKeys(keys)
      PROVE  AccountInv'
  <2>. DEFINE f == [form EXCEPT !.keys = keys]
  <2>1. f \in CloudAccount!Forms /\ f.name = form.name
    BY <1>0 DEF CloudAccount!Forms
  <2>2. /\ form' = CloudAccount!Tracked(f)
        /\ UNCHANGED <<open, account, progress, validated, isValidationInProgress,
                       isSaveInProgress, validation, addition, update, saved>>
    BY <1>5 DEF CloudAccount!EditKeys, CloudAccount!Edit, CloudAccount!flags
  <2>. HIDE DEF f
  <2>. QED  BY <1>0, <2>1, <2>2, TrackedForm, EditedKeepsInv
<1>6. ASSUME NEW auth \in CloudAccount!AuthTypes, CloudAccount!EditAuth(auth)
      PROVE  AccountInv'
  <2>. DEFINE f == [form EXCEPT !.auth = auth]
  <2>1. f \in CloudAccount!Forms /\ f.name = form.name
    BY <1>0 DEF CloudAccount!Forms
  <2>2. /\ form' = CloudAccount!Tracked(f)
        /\ UNCHANGED <<open, account, progress, validated, isValidationInProgress,
                       isSaveInProgress, validation, addition, update, saved>>
    BY <1>6 DEF CloudAccount!EditAuth, CloudAccount!Edit, CloudAccount!flags
  <2>. HIDE DEF f
  <2>. QED  BY <1>0, <2>1, <2>2, TrackedForm, EditedKeepsInv
<1>7. CASE CloudAccount!ValidateButton
  <2>1. /\ open /\ ~form.nameError /\ form.keys # ""
        /\ form' = CloudAccount!ErrorsReset(form) /\ isValidationInProgress' = TRUE
        /\ validation' = CloudAccount!Call(form.keys)
        /\ UNCHANGED <<open, account, isSaveInProgress, progress, addition, update, validated, saved>>
    BY <1>7 DEF CloudAccount!ValidateButton, CloudAccount!FormValid
  <2>2. form' \in CloudAccount!Forms /\ form'.name = form.name
    BY <1>0, <2>1, TrackedForm
  <2>3. form.keys \in AccessKeys
    BY <1>0, <2>1, FormsAre
  <2>. QED  BY <2>1, <2>2, <2>3 DEF AccountInv, AccountTypes, Saveable
<1>8. CASE CloudAccount!SaveButton
  <2>. DEFINE keys == CloudAccount!SerializedKeys
              new == account = ""
  <2>1. /\ open /\ ~form.nameError
        /\ progress.validate = "success" \/ form.auth = "AWS_INSTANCEPROFILE"
        /\ form' = CloudAccount!ErrorsReset(form) /\ isSaveInProgress' = TRUE
        /\ UNCHANGED <<open, account, isValidationInProgress, progress, validation, validated>>
    BY <1>8 DEF CloudAccount!SaveButton, CloudAccount!IsSaveButtonDisabled,
       CloudAccount!IsValidationSuccess
  <2>2. saved' = saved \cup {[name |-> form.name, keys |-> keys, new |-> new]}
    <3>1. (~CloudAccount!isEditMode) = new
      BY DEF CloudAccount!isEditMode
    <3>2. saved' = saved \cup {[name |-> form.name, keys |-> keys,
                               new |-> ~CloudAccount!isEditMode]}
      BY <1>8, Zenon DEF CloudAccount!SaveButton
    <3>. QED  BY <3>1, <3>2
  <2>3. \/ update' = [phase |-> "sent", here |-> TRUE] /\ UNCHANGED addition
        \/ addition' = CloudAccount!Call(keys) /\ UNCHANGED update
    BY <1>8 DEF CloudAccount!SaveButton
  <2>4. form' \in CloudAccount!Forms /\ form'.name = form.name
    BY <1>0, <2>1, TrackedForm
  <2>5. keys \in validated \cup {"profile"}
    BY <1>0, <2>1, FormsAre DEF CloudAccount!SerializedKeys, AccountInv, CloudAccount!AuthTypes
  <2>6. keys \in AccessKeys \cup {"profile"}
    BY <1>0, <2>5 DEF AccountTypes
  <2>. HIDE DEF keys
  <2>7. [name |-> form.name, keys |-> keys, new |-> new] \in Saveable
    <3>1. form.name \in Names \cup Accounts \cup {""}
      BY <1>0, FormsAre
    <3>2. CASE account = ""
      <4>1. form.name \notin TakenNames /\ new = TRUE
        BY <2>1, <3>2 DEF AccountInv
      <4>. QED  BY <2>5, <3>1, <4>1 DEF Saveable, TakenNames
    <3>3. CASE account # ""
      <4>1. form.name \in Accounts /\ new = FALSE
        BY <1>0, <2>1, <3>3 DEF AccountInv
      <4>. QED  BY <2>5, <4>1 DEF Saveable
    <3>. QED  BY <3>2, <3>3
  <2>. HIDE DEF new
  <2>8. saved' \subseteq Saveable /\ Saveable' = Saveable
    BY <2>1, <2>2, <2>7 DEF AccountInv, Saveable
  <2>9. addition' \in KeyCalls \cup {CloudAccount!NoCall}
        /\ update' \in [phase : {"none", "sent"}, here : BOOLEAN]
    <3>1. CloudAccount!Call(keys) \in KeyCalls
      BY <2>6 DEF KeyCalls
    <3>2. [phase |-> "sent", here |-> TRUE] \in [phase : {"none", "sent"}, here : BOOLEAN]
      OBVIOUS
    <3>. QED  BY <1>0, <2>3, <3>1, <3>2 DEF AccountTypes
  <2>10. addition' # CloudAccount!NoCall \/ (update'.phase = "sent" /\ update'.here)
    BY <2>3
  <2>11. account = "" => form'.name \notin TakenNames
    BY <2>1, <2>4 DEF AccountInv
  <2>. QED  BY <2>1, <2>4, <2>8, <2>9, <2>10, <2>11 DEF AccountInv, AccountTypes
<1>9. CASE CloudAccount!ValidateCredentialsSuccess \/ CloudAccount!ValidateCredentialsFail
  <2>. DEFINE p == [validate |-> "success", keys |-> validation.keys, add |-> "init"]
              q == [validate |-> "failed", keys |-> "", add |-> "init"]
  <2>1. validation # CloudAccount!NoCall => validation.keys \in AccessKeys
    BY <1>0, ValidatedKeys DEF AccountTypes
  <2>2. q \in [validate : CloudAccount!PROGRESS_STATUS, keys : AccessKeys \cup {""},
               add : CloudAccount!PROGRESS_STATUS] /\ q.validate = "failed"
    BY DEF CloudAccount!PROGRESS_STATUS
  <2>3. validation # CloudAccount!NoCall =>
          p \in [validate : CloudAccount!PROGRESS_STATUS, keys : AccessKeys \cup {""},
                 add : CloudAccount!PROGRESS_STATUS] /\ p.keys = validation.keys
    BY <2>1 DEF CloudAccount!PROGRESS_STATUS
  <2>4. CASE CloudAccount!ValidateCredentialsSuccess
    <3>1. /\ validation # CloudAccount!NoCall /\ validation' = CloudAccount!NoCall
          /\ validated' = validated \cup {validation.keys} /\ CloudAccount!Progressed(p)
          /\ UNCHANGED <<addition, saved>>
      BY <2>4 DEF CloudAccount!ValidateCredentialsSuccess
    <3>2. validated' \subseteq AccessKeys
      BY <1>0, <2>1, <3>1 DEF AccountTypes
    <3>. HIDE DEF p
    <3>. QED  BY <2>3, <3>1, <3>2, ProgressedKeepsInv
  <2>5. CASE CloudAccount!ValidateCredentialsFail
    <3>1. /\ validation' = CloudAccount!NoCall /\ CloudAccount!Progressed(q)
          /\ UNCHANGED <<addition, validated, saved>>
      BY <2>5 DEF CloudAccount!ValidateCredentialsFail
    <3>2. validated' \subseteq AccessKeys
      BY <1>0, <3>1 DEF AccountTypes
    <3>. HIDE DEF q
    <3>. QED  BY <2>2, <3>1, <3>2, ProgressedKeepsInv
  <2>. QED  BY <1>9, <2>4, <2>5
<1>10. CASE CloudAccount!AddCloudStoreSuccess \/ CloudAccount!AddCloudStoreFail
  <2>1. PICK p : /\ CloudAccount!Progressed(p)
                 /\ p = [progress EXCEPT !.add = "success"]
                      \/ p = [validate |-> "init", keys |-> "", add |-> "failed"]
    BY <1>10 DEF CloudAccount!AddCloudStoreSuccess, CloudAccount!AddCloudStoreFail
  <2>2. /\ p \in [validate : CloudAccount!PROGRESS_STATUS, keys : AccessKeys \cup {""},
                  add : CloudAccount!PROGRESS_STATUS]
        /\ p.validate = "success" => p.keys \in validated
    <3>1. CASE p = [progress EXCEPT !.add = "success"]
      BY <1>0, <3>1 DEF AccountInv, AccountTypes, CloudAccount!PROGRESS_STATUS
    <3>2. CASE p = [validate |-> "init", keys |-> "", add |-> "failed"]
      BY <3>2 DEF CloudAccount!PROGRESS_STATUS
    <3>. QED  BY <2>1, <3>1, <3>2
  <2>3. addition' = CloudAccount!NoCall /\ UNCHANGED <<validation, validated, saved>>
        /\ validated \subseteq AccessKeys
    BY <1>0, <1>10 DEF CloudAccount!AddCloudStoreSuccess, CloudAccount!AddCloudStoreFail, AccountTypes
  <2>. QED  BY <2>1, <2>2, <2>3, ProgressedKeepsInv
<1>11. CASE CloudAccount!UpdateCloudStoreSuccess
  BY <1>11 DEF CloudAccount!UpdateCloudStoreSuccess, CloudAccount!Closed, AccountInv, AccountTypes,
     Saveable
<1>12. CASE CloudAccount!UpdateCloudStoreFail
  <2>1. /\ update' = CloudAccount!NoUpdate
        /\ isSaveInProgress' = (IF update.here THEN FALSE ELSE isSaveInProgress)
        /\ UNCHANGED <<open, account, form, isValidationInProgress, progress, validation, addition,
                       validated, saved>>
    BY <1>12 DEF CloudAccount!UpdateCloudStoreFail
  <2>. QED  BY <2>1 DEF AccountInv, AccountTypes, Saveable
<1>. QED  BY <1>1, <1>2, <1>3, <1>4, <1>5, <1>6, <1>7, <1>8, <1>9, <1>10, <1>11, <1>12
          DEF CloudAccount!Next

\* The invariant of the dialog gives its types and its properties.
LEMMA AccountFits ==
  ASSUME AccountInv
  PROVE  /\ CloudAccount!SavedValidated /\ CloudAccount!NewNamesFree
         /\ CloudAccount!SpinsForCall /\ CloudAccount!TypeOK
<1>1. CloudAccount!SavedValidated /\ CloudAccount!NewNamesFree
  BY DEF AccountInv, Saveable, CloudAccount!SavedValidated, CloudAccount!NewNamesFree
<1>2. CloudAccount!SpinsForCall
  BY DEF AccountInv, CloudAccount!SpinsForCall
<1>3. {validation.phase, addition.phase, update.phase} \subseteq {"none", "sent"}
  <2>1. validation.phase \in {"none", "sent"}
    BY ValidatedKeys DEF AccountInv, AccountTypes
  <2>2. addition.phase \in {"none", "sent"}
    <3>1. \A c \in KeyCalls : c.phase = "sent"
      BY AccountCalls DEF KeyCalls
    <3>. QED  BY <3>1, AccountCalls DEF AccountInv, AccountTypes
  <2>3. update.phase \in {"none", "sent"}
    BY DEF AccountInv, AccountTypes
  <2>. QED  BY <2>1, <2>2, <2>3
<1>4. saved \subseteq [name : Names \cup Accounts, keys : AccessKeys \cup {"profile"}, new : BOOLEAN]
  BY DEF AccountInv, AccountTypes, Saveable
<1>. QED  BY <1>1, <1>2, <1>3, <1>4 DEF AccountInv, AccountTypes, CloudAccount!TypeOK

-----------------------------------------------------------------------------
(* The directory of the source. *)

DirectoryCalls ==
  [path : Directory!Paths, by : {"browser", "encryption", "ancestor"}] \cup {Directory!NoListing}

DirectoryTypes ==
  /\ is10 \in BOOLEAN /\ debouncing \in BOOLEAN /\ inProgress \in BOOLEAN /\ apart \in BOOLEAN
  /\ {path, hdfsRootPath, shown, lastResult} \subseteq Directory!Paths
  /\ listed \subseteq Directories \cup Files /\ Directory!Root \in listed
  /\ ancestor \in Directory!Paths \cup {Directory!NoPath} /\ fileCall \in DirectoryCalls
  /\ verdict \in {"none", "pending", "notExist", "isFile", "reset"}
  /\ edits \in 0..MaxEdits

\* The ancestors of such a path are known.
Short(p) == is10 \/ Len(p) <= 2

WhatIsAt(p) == IF p \in Directories THEN "none" ELSE IF p \in Files THEN "isFile" ELSE "notExist"

\* A field at rest is shown by the browser, which lists the directory or has listed it
\* last; the verdict is taken from that.
DirectoryInv ==
  /\ DirectoryTypes /\ Directory!SpinsForListing
  /\ ~debouncing => hdfsRootPath = path /\ (~apart => shown = path)
  /\ ~apart /\ Short(shown) =>
       IF inProgress THEN fileCall = Directory!ListFiles(shown, "browser") ELSE lastResult = shown
  /\ ~debouncing /\ Short(path) => ancestor = Directory!NoPath
  /\ ~debouncing /\ Short(path) /\ ~apart /\ ~inProgress /\ verdict # "reset" =>
       verdict = WhatIsAt(path)

\* A listing tells its path and who asked for it.
LEMMA ListingsAre ==
  ASSUME NEW p, NEW by
  PROVE  /\ Directory!ListFiles(p, by).path = p /\ Directory!ListFiles(p, by).by = by
         /\ by # "none" => Directory!ListFiles(p, by) # Directory!NoListing
  BY DEF Directory!ListFiles, Directory!NoListing

PathNames == {"a", "b", "c", "f", "x"}

\* Sequences of up to three names.
LEMMA NamesMakePaths ==
  ASSUME NEW S, NEW a \in S, NEW b \in S, NEW c \in S
  PROVE  /\ <<a>> \in Seq(S) /\ Len(<<a>>) = 1 /\ <<a>>[1] = a
         /\ <<a, b>> \in Seq(S) /\ Len(<<a, b>>) = 2
         /\ <<a, b, c>> \in Seq(S) /\ Len(<<a, b, c>>) = 3
  OBVIOUS

\* The paths of the instance have three names at most.
LEMMA PathsAre ==
  ASSUME NEW p \in Directory!Paths
  PROVE  /\ p \in Seq(PathNames) /\ Len(p) \in 0..3 /\ (Len(p) = 0 <=> p = <<>>)
         /\ SubSeq(p, 1, 0) = <<>>
         /\ Len(p) = 3 => SubSeq(p, 1, 1) \in Directory!Paths
<1>1. p \in Directories \cup Files \cup Missing
  BY DEF Directory!Paths
<1>2. p \in Seq(PathNames) /\ Len(p) \in 0..3 /\ (Len(p) = 0 <=> p = <<>>)
  <2>1. \A a, b, c \in PathNames :
          /\ <<a>> \in Seq(PathNames) /\ Len(<<a>>) = 1
          /\ <<a, b>> \in Seq(PathNames) /\ Len(<<a, b>>) = 2
          /\ <<a, b, c>> \in Seq(PathNames) /\ Len(<<a, b, c>>) = 3
    BY NamesMakePaths
  <2>2. CASE p = <<>>
    BY <2>2
  <2>3. CASE \E a \in PathNames : p = <<a>>
    BY <2>1, <2>3
  <2>4. CASE \E a, b \in PathNames : p = <<a, b>>
    BY <2>1, <2>4
  <2>5. CASE \E a, b, c \in PathNames : p = <<a, b, c>>
    BY <2>1, <2>5
  <2>6. {"a", "b", "c", "f", "x"} \subseteq PathNames
    BY DEF PathNames
  <2>7. \/ p = <<>> \/ \E a \in PathNames : p = <<a>>
        \/ \E a, b \in PathNames : p = <<a, b>>
        \/ \E a, b, c \in PathNames : p = <<a, b, c>>
    BY <1>1, <2>6, Zenon DEF Directories, Files, Missing
  <2>. QED  BY <2>2, <2>3, <2>4, <2>5, <2>7
<1>3. SubSeq(p, 1, 0) = <<>>
  BY <1>2
<1>4. ASSUME Len(p) = 3
      PROVE  SubSeq(p, 1, 1) \in Directory!Paths
  <2>1. p[1] \in {"a", "x"}
    BY <1>1, <1>4 DEF Directories, Files, Missing
  <2>2. SubSeq(p, 1, 1) = <<p[1]>>
    <3>1. SubSeq(p, 1, 1) \in Seq(PathNames) /\ Len(SubSeq(p, 1, 1)) = 1 /\ SubSeq(p, 1, 1)[1] = p[1]
      BY <1>2, <1>4
    <3>2. /\ <<p[1]>> \in Seq(PathNames) /\ Len(<<p[1]>>) = 1 /\ <<p[1]>>[1] = p[1]
      <4>1. p[1] \in PathNames
        BY <2>1 DEF PathNames
      <4>. QED  BY <4>1, NamesMakePaths
    <3>3. \A i \in 1..1 : SubSeq(p, 1, 1)[i] = <<p[1]>>[i]
      BY <3>1, <3>2
    <3>. HIDE DEF Directory!Paths
    <3>. QED  BY <3>1, <3>2, <3>3, SeqEqual
  <2>3. <<"a">> \in Directory!Paths /\ <<"x">> \in Directory!Paths
    BY DEF Directory!Paths, Directories, Missing
  <2>. QED  BY <2>1, <2>2, <2>3
<1>. QED  BY <1>2, <1>3, <1>4

\* One is odd.
LEMMA OneIsOdd == 1 % 2 # 0
  OBVIOUS

\* Numbers up to three, of which one is less than another.
LEMMA Thirds ==
  ASSUME NEW m \in 0..3, NEW n \in 0..(m - 1), n # 0
  PROVE  (m = 3 /\ n = 1) \/ m - n = 1
  OBVIOUS

\* The ancestors that are looked at are paths, and of a short path only the root.
LEMMA AncestorsAre ==
  ASSUME NEW p \in Directory!Paths
  PROVE  /\ Directory!Ancestors(p) \subseteq Directory!Paths
         /\ Len(p) <= 2 => Directory!Ancestors(p) \subseteq {Directory!Root}
<1>1. ASSUME NEW a \in Directory!Ancestors(p)
      PROVE  a \in Directory!Paths /\ (Len(p) <= 2 => a = Directory!Root)
  <2>1. PICK n \in 0..(Len(p) - 1) : (n = 0 \/ (Len(p) - n) % 2 = 0) /\ a = SubSeq(p, 1, n)
    BY <1>1 DEF Directory!Ancestors
  <2>2. CASE n = 0
    <3>1. a = <<>>
      BY <2>1, <2>2, PathsAre
    <3>2. <<>> \in Directory!Paths
      BY DEF Directory!Paths, Directories
    <3>. QED  BY <3>1, <3>2 DEF Directory!Root
  <2>3. CASE n # 0
    <3>1. n = 1 /\ Len(p) = 3
      <4>1. PICK m \in 0..3 : m = Len(p)
        BY PathsAre
      <4>2. n \in 0..(m - 1) /\ n # 0
        BY <2>1, <2>3, <4>1
      <4>3. (m = 3 /\ n = 1) \/ m - n = 1
        <5>. HIDE <2>1
        <5>. QED  BY <4>2, Thirds
      <4>4. (m - n) % 2 = 0
        BY <2>1, <2>3, <4>1
      <4>. QED  BY <4>1, <4>3, <4>4, OneIsOdd
    <3>. QED  BY <2>1, <3>1, PathsAre
  <2>. QED  BY <2>2, <2>3
<1>. QED  BY <1>1

\* The ancestor that is listed next; a short path has none.
LEMMA UnlistedIs ==
  ASSUME NEW p \in Directory!Paths, NEW known, Directory!Root \in known
  PROVE  /\ Directory!Unlisted(p, known) \in Directory!Paths \cup {Directory!NoPath}
         /\ Len(p) <= 2 => Directory!Unlisted(p, known) = Directory!NoPath
<1>. DEFINE candidates == Directory!Stops(p, known) \ known
            first(a) == \A b \in Directory!Stops(p, known) : Len(b) <= Len(a)
<1>1. Directory!Unlisted(p, known) = IF \E a \in candidates : first(a)
                                     THEN CHOOSE a \in candidates : first(a)
                                     ELSE Directory!NoPath
  BY Zenon DEF Directory!Unlisted
<1>2. candidates \subseteq Directory!Ancestors(p) \ known
  BY DEF Directory!Stops
<1>. HIDE DEF candidates, first
<1>3. Directory!Unlisted(p, known) \in candidates \cup {Directory!NoPath}
  BY <1>1
<1>4. Len(p) <= 2 => candidates = {}
  BY <1>2, AncestorsAre
<1>. QED  BY <1>2, <1>3, <1>4, AncestorsAre

\* A listing of the path itself tells what there is.
LEMMA OwnVerdict ==
  ASSUME NEW p \in Directory!Paths
  PROVE  Directory!Verdict(p, p) = WhatIsAt(p)
<1>1. CASE p \in Files
  <2>1. p = <<"a", "f">> /\ p # Directory!Root /\ p \notin Directories
    BY <1>1 DEF Files, Directories, Directory!Root
  <2>2. Directory!FilesAt(p) = {p} /\ Directory!Exists(p)
    BY <1>1 DEF Directory!FilesAt, Directory!Exists
  <2>. QED  BY <1>1, <2>1, <2>2 DEF Directory!Verdict, WhatIsAt
<1>2. CASE p \in Directories
  <2>1. Directory!Exists(p)
    BY <1>2 DEF Directory!Exists
  <2>2. ASSUME p # Directory!Root, NEW f \in Files
        PROVE  Directory!Last(f) # Directory!Last(p)
    <3>1. Directory!Last(f) = "f"
      BY <2>2 DEF Files, Directory!Last
    <3>2. Directory!Last(p) \in {"a", "b", "c"}
      BY <1>2, <2>2 DEF Directories, Directory!Last, Directory!Root
    <3>. QED  BY <3>1, <3>2
  <2>. QED  BY <1>2, <2>1, <2>2 DEF Directory!Verdict, WhatIsAt
<1>3. CASE p \notin Directories \cup Files
  BY <1>3 DEF Directory!Verdict, Directory!Exists, WhatIsAt
<1>. QED  BY <1>1, <1>2, <1>3

\* A verdict is one of three.
LEMMA VerdictsAre ==
  ASSUME NEW result, NEW p
  PROVE  Directory!Verdict(result, p) \in {"none", "notExist", "isFile"}
  BY DEF Directory!Verdict

\* What a check of ancestors does: it asks for one, or it ends.
LEMMA AncestorsChecked ==
  ASSUME NEW p \in Directory!Paths, NEW known, Directory!Root \in known,
         NEW before \in DirectoryCalls, Directory!CheckAncestors(p, known, before)
  PROVE  \/ /\ ancestor' = Directory!NoPath /\ fileCall' = before /\ verdict' = "none"
         \/ /\ ancestor' \in Directory!Paths /\ verdict' = "pending" /\ Len(p) > 2
            /\ fileCall' = Directory!ListFiles(ancestor', "ancestor")
<1>1. /\ Directory!Unlisted(p, known) \in Directory!Paths \cup {Directory!NoPath}
      /\ Len(p) <= 2 => Directory!Unlisted(p, known) = Directory!NoPath
  BY UnlistedIs
<1>2. Len(p) \in Nat
  BY PathsAre
<1>3. /\ ancestor' = Directory!Unlisted(p, known)
      /\ verdict' = IF ancestor' = Directory!NoPath THEN "none" ELSE "pending"
      /\ fileCall' = IF ancestor' = Directory!NoPath THEN before
                     ELSE Directory!ListFiles(ancestor', "ancestor")
  BY DEF Directory!CheckAncestors
<1>. QED  BY <1>1, <1>2, <1>3

\* What a validation does.
LEMMA ValidationDoes ==
  ASSUME NEW result, NEW root, NEW known, Directory!Root \in known, path \in Directory!Paths,
         NEW before \in DirectoryCalls, Directory!Validate(result, root, known, before)
  PROVE  \/ /\ ancestor' = Directory!NoPath /\ fileCall' = before
            /\ verdict' = Directory!Verdict(result, root)
         \/ /\ ancestor' \in Directory!Paths /\ verdict' = "pending" /\ ~Short(path)
            /\ fileCall' = Directory!ListFiles(ancestor', "ancestor")
<1>1. Len(path) \in Nat
  BY PathsAre
<1>2. CASE Directory!Verdict(result, root) # "none" \/ is10
  BY <1>2 DEF Directory!Validate
<1>3. CASE Directory!Verdict(result, root) = "none" /\ ~is10
  <2>1. Directory!CheckAncestors(path, known, before)
    BY <1>3 DEF Directory!Validate
  <2>. QED  BY <1>1, <1>3, <2>1, AncestorsChecked DEF Short
<1>. QED  BY <1>2, <1>3

\* The call for the encryption of a path is a call.
LEMMA EncryptionIs ==
  ASSUME NEW p \in Directory!Paths, NEW older \in DirectoryCalls
  PROVE  Directory!Encryption(p, older) \in DirectoryCalls
<1>1. CASE p = Directory!Root \/ Directory!Front(p) = Directory!Root
  BY <1>1 DEF Directory!Encryption
<1>2. CASE p # Directory!Root /\ Directory!Front(p) # Directory!Root
  <2>1. Directory!Front(p) \in Directory!Paths
    BY <1>2, WebPagesConstants DEF Directory!SourceDirectoryConstants
  <2>. QED  BY <1>2, <2>1 DEF Directory!Encryption, Directory!ListFiles, DirectoryCalls
<1>. QED  BY <1>1, <1>2

\* The invariant of the directory holds at first.
LEMMA DirectoryInvStarts ==
  ASSUME Init
  PROVE  DirectoryInv
<1>1. Directory!Init /\ MaxEdits \in Nat /\ <<>> \in Directory!Paths /\ <<>> \in Directories
  BY WebPagesConstants
  DEF Init, Directory!SourceDirectoryConstants, Directory!Paths, Directories
<1>2. Directory!NoListing \in DirectoryCalls
  BY DEF Directory!NoListing, DirectoryCalls
<1>3. /\ is10 \in BOOLEAN /\ path = <<>> /\ debouncing = FALSE /\ hdfsRootPath = <<>>
      /\ shown = <<>> /\ listed = {<<>>} /\ fileCall = Directory!NoListing /\ inProgress = FALSE
      /\ lastResult = <<>> /\ ancestor = Directory!NoPath /\ verdict = "none" /\ apart = FALSE
      /\ edits = 0
  BY <1>1 DEF Directory!Init, Directory!Root
<1>4. DirectoryTypes
  <2>1. {path, hdfsRootPath, shown, lastResult} \subseteq Directory!Paths
    BY <1>1, <1>3
  <2>2. listed \subseteq Directories \cup Files /\ Directory!Root \in listed
    BY <1>1, <1>3 DEF Directory!Root
  <2>3. edits \in 0..MaxEdits
    BY <1>1, <1>3
  <2>. QED  BY <1>2, <1>3, <2>1, <2>2, <2>3 DEF DirectoryTypes
<1>5. WhatIsAt(path) = "none"
  BY <1>1, <1>3 DEF WhatIsAt
<1>. QED  BY <1>3, <1>4, <1>5 DEF DirectoryInv, Directory!SpinsForListing

\* Every step of the directory keeps its invariant.
LEMMA DirectoryInvKept ==
  ASSUME DirectoryInv, [Directory!Next]_directoryVars
  PROVE  DirectoryInv'
<1>0. /\ DirectoryTypes /\ path \in Directory!Paths /\ hdfsRootPath \in Directory!Paths
      /\ fileCall \in DirectoryCalls /\ MaxEdits \in Nat
      /\ Directory!NoPath \notin Directory!Paths
  BY WebPagesConstants DEF DirectoryInv, DirectoryTypes, Directory!SourceDirectoryConstants
<1>1. CASE UNCHANGED directoryVars
  BY <1>1 DEF directoryVars, DirectoryInv, DirectoryTypes, Directory!SpinsForListing, Short, WhatIsAt
<1>2. ASSUME NEW p, Directory!Edited(p)
      PROVE  /\ edits' \in 0..MaxEdits /\ path' = p /\ verdict' = "pending" /\ debouncing' = TRUE
  BY <1>0, <1>2 DEF Directory!Edited, DirectoryTypes
<1>3. ASSUME NEW p \in Directory!Paths, Directory!Type(p)
      PROVE  DirectoryInv'
  <2>1. /\ Directory!Edited(p)
        /\ UNCHANGED <<is10, hdfsRootPath, shown, listed, fileCall, inProgress, lastResult,
                       ancestor, apart>>
    BY <1>3 DEF Directory!Type
  <2>. QED
    BY <1>2, <2>1 DEF DirectoryInv, DirectoryTypes, Directory!SpinsForListing, Short
<1>4. ASSUME NEW p \in Directory!Paths, Directory!SwitchDirectory(p)
      PROVE  DirectoryInv'
  <2>1. /\ shown' = p /\ apart' = (apart /\ p = shown)
        /\ UNCHANGED <<is10, hdfsRootPath, listed, lastResult, ancestor>>
        /\ \/ p = shown /\ UNCHANGED <<fileCall, inProgress>>
           \/ /\ p # shown /\ fileCall' = Directory!ListFiles(p, "browser")
              /\ inProgress' = TRUE
        /\ \/ p = path /\ UNCHANGED <<path, verdict, debouncing, edits>>
           \/ p # path /\ Directory!Edited(p)
    BY <1>4 DEF Directory!SwitchDirectory
  <2>2. Directory!ListFiles(p, "browser") \in DirectoryCalls
        /\ Directory!ListFiles(p, "browser") # Directory!NoListing
    BY ListingsAre DEF Directory!ListFiles, DirectoryCalls
  <2>3. /\ edits' \in 0..MaxEdits /\ path' = p
        /\ \/ p = path /\ verdict' = verdict /\ debouncing' = debouncing
           \/ verdict' = "pending" /\ debouncing' = TRUE
    <3>1. CASE p = path
      BY <1>0, <2>1, <3>1 DEF DirectoryTypes, Directory!Edited
    <3>2. CASE p # path
      BY <1>2, <2>1, <3>2
    <3>. QED  BY <3>1, <3>2
  <2>4. DirectoryTypes'
    BY <1>0, <2>1, <2>2, <2>3 DEF DirectoryTypes
  <2>5. Directory!SpinsForListing'
    BY <2>1, <2>2 DEF DirectoryInv, Directory!SpinsForListing
  <2>6. ~debouncing' => hdfsRootPath' = path' /\ (~apart' => shown' = path')
    BY <2>1, <2>3 DEF DirectoryInv
  <2>7. ~apart' /\ Short(shown)' =>
          IF inProgress' THEN fileCall' = Directory!ListFiles(shown', "browser")
          ELSE lastResult' = shown'
    <3>1. CASE p = shown
      BY <1>0, <2>1, <3>1 DEF DirectoryInv, DirectoryTypes, Short
    <3>2. CASE p # shown
      BY <2>1, <3>2
    <3>. QED  BY <3>1, <3>2
  <2>8. ~debouncing' /\ Short(path)' => ancestor' = Directory!NoPath
    BY <2>1, <2>3 DEF DirectoryInv, Short
  <2>9. ~debouncing' /\ Short(path)' /\ ~apart' /\ ~inProgress' /\ verdict' # "reset" =>
          verdict' = WhatIsAt(path')
    <3>1. ASSUME ~debouncing', Short(path)', ~apart', ~inProgress', verdict' # "reset"
          PROVE  verdict' = WhatIsAt(path')
      <4>1. p = path /\ verdict' = verdict /\ ~debouncing /\ path' = path
        BY <2>3, <3>1
      <4>2. p = shown /\ ~apart /\ ~inProgress
        BY <1>0, <2>1, <3>1 DEF DirectoryTypes
      <4>3. Short(path)
        BY <2>1, <3>1, <4>1 DEF Short
      <4>. QED  BY <3>1, <4>1, <4>2, <4>3 DEF DirectoryInv
    <3>. QED  BY <3>1
  <2>. QED  BY <2>4, <2>5, <2>6, <2>7, <2>8, <2>9 DEF DirectoryInv, WhatIsAt
<1>5. CASE Directory!Debounced
  <2>. DEFINE navigates == hdfsRootPath # path /\ shown # path
              asked == IF inProgress THEN fileCall ELSE Directory!Encryption(path, fileCall)
              before == IF navigates THEN Directory!ListFiles(path, "browser") ELSE asked
  <2>1. /\ debouncing' = FALSE /\ hdfsRootPath' = path
        /\ shown' = (IF navigates THEN path ELSE shown)
        /\ inProgress' = (inProgress \/ navigates)
        /\ apart' = (~navigates /\ (apart \/ shown # path))
        /\ Directory!Validate(lastResult, path, listed, before)
        /\ UNCHANGED <<is10, path, listed, lastResult, edits>>
    BY <1>5 DEF Directory!Debounced
  <2>2. /\ before \in DirectoryCalls
        /\ navigates => before = Directory!ListFiles(path, "browser")
        /\ ~navigates /\ inProgress => before = fileCall
        /\ navigates \/ inProgress => before # Directory!NoListing
    <3>1. Directory!ListFiles(path, "browser") \in DirectoryCalls
          /\ Directory!ListFiles(path, "browser") # Directory!NoListing
      BY <1>0, ListingsAre DEF Directory!ListFiles, DirectoryCalls
    <3>2. asked \in DirectoryCalls
      BY <1>0, EncryptionIs
    <3>3. inProgress => fileCall # Directory!NoListing
      BY DEF DirectoryInv, Directory!SpinsForListing
    <3>. QED  BY <3>1, <3>2, <3>3
  <2>. HIDE DEF before, asked
  <2>3. \/ /\ ancestor' = Directory!NoPath /\ fileCall' = before
           /\ verdict' = Directory!Verdict(lastResult, path)
        \/ /\ ancestor' \in Directory!Paths /\ verdict' = "pending" /\ ~Short(path)
           /\ fileCall' = Directory!ListFiles(ancestor', "ancestor")
    BY <1>0, <2>1, <2>2, ValidationDoes DEF DirectoryTypes
  <2>4. /\ fileCall' \in DirectoryCalls /\ ancestor' \in Directory!Paths \cup {Directory!NoPath}
        /\ verdict' \in {"none", "pending", "notExist", "isFile", "reset"}
        /\ ancestor' # Directory!NoPath => fileCall' # Directory!NoListing
        /\ inProgress' => fileCall' # Directory!NoListing
    <3>1. \A q \in Directory!Paths : Directory!ListFiles(q, "ancestor") \in DirectoryCalls
            /\ Directory!ListFiles(q, "ancestor") # Directory!NoListing
      BY ListingsAre DEF Directory!ListFiles, DirectoryCalls
    <3>. QED  BY <2>1, <2>2, <2>3, <3>1, VerdictsAre
  <2>5. DirectoryTypes'
    BY <1>0, <2>1, <2>4 DEF DirectoryTypes
  <2>6. ~apart' => shown' = path'
    BY <2>1
  <2>7. ~apart' /\ Short(shown') =>
          IF inProgress' THEN fileCall' = Directory!ListFiles(shown', "browser")
          ELSE lastResult' = shown'
    BY <1>0, <2>1, <2>2, <2>3 DEF DirectoryInv
  <2>8. Short(path) /\ ~apart' /\ ~inProgress' => verdict' = WhatIsAt(path)
    <3>1. ASSUME Short(path), ~apart', ~inProgress'
          PROVE  lastResult = path
      BY <2>1, <3>1 DEF DirectoryInv
    <3>. QED  BY <1>0, <2>3, <3>1, OwnVerdict
  <2>9. Short(path) => ancestor' = Directory!NoPath
    BY <2>3
  <2>. QED
    BY <2>1, <2>4, <2>5, <2>6, <2>7, <2>8, <2>9
    DEF DirectoryInv, Directory!SpinsForListing, Short, WhatIsAt
<1>6. CASE Directory!UpdateOnActivation
  BY <1>0, <1>6 DEF Directory!UpdateOnActivation, DirectoryInv, DirectoryTypes,
     Directory!SpinsForListing, Short
<1>7. CASE Directory!ListFilesDone
  <2>. DEFINE p == fileCall.path
              known == IF Directory!Exists(p) THEN listed \cup {p} ELSE listed
  <2>1. /\ fileCall # Directory!NoListing /\ listed' = known /\ inProgress' = FALSE
        /\ UNCHANGED <<is10, path, debouncing, hdfsRootPath, shown, apart, edits>>
    BY <1>7 DEF Directory!ListFilesDone
  <2>2. p \in Directory!Paths
        /\ known \subseteq Directories \cup Files /\ Directory!Root \in known
    BY <1>0, <2>1 DEF DirectoryTypes, DirectoryCalls, Directory!Exists
  <2>3. Directory!NoListing \in DirectoryCalls
    BY DEF Directory!NoListing, DirectoryCalls
  <2>4. \A q \in Directory!Paths : Directory!ListFiles(q, "ancestor") \in DirectoryCalls
            /\ Directory!ListFiles(q, "ancestor") # Directory!NoListing
    BY ListingsAre DEF Directory!ListFiles, DirectoryCalls
  <2>5. CASE inProgress
    <3>. DEFINE before == Directory!Encryption(hdfsRootPath, Directory!NoListing)
    <3>1. lastResult' = p /\ Directory!Validate(p, hdfsRootPath, known, before)
      BY <1>7, <2>5 DEF Directory!ListFilesDone
    <3>2. before \in DirectoryCalls
      BY <1>0, <2>3, EncryptionIs
    <3>. HIDE DEF before, known
    <3>3. \/ /\ ancestor' = Directory!NoPath /\ fileCall' = before
             /\ verdict' = Directory!Verdict(p, hdfsRootPath)
          \/ /\ ancestor' \in Directory!Paths /\ verdict' = "pending" /\ ~Short(path)
             /\ fileCall' = Directory!ListFiles(ancestor', "ancestor")
      BY <1>0, <2>2, <3>1, <3>2, ValidationDoes
    <3>4. /\ fileCall' \in DirectoryCalls
          /\ ancestor' \in Directory!Paths \cup {Directory!NoPath}
          /\ verdict' \in {"none", "pending", "notExist", "isFile", "reset"}
          /\ ancestor' # Directory!NoPath => fileCall' # Directory!NoListing
      BY <2>4, <3>2, <3>3, VerdictsAre
    <3>5. DirectoryTypes'
      BY <1>0, <2>1, <2>2, <3>1, <3>4 DEF DirectoryTypes, known
    <3>6. ~apart /\ Short(shown) => lastResult' = shown
      BY <2>5, <3>1, ListingsAre DEF DirectoryInv
    <3>7. ASSUME ~debouncing, Short(path), ~apart
          PROVE  verdict' = WhatIsAt(path)
      <4>1. hdfsRootPath = path /\ shown = path /\ p = path
        BY <3>1, <3>6, <3>7 DEF DirectoryInv
      <4>. QED  BY <1>0, <3>3, <3>7, <4>1, OwnVerdict
    <3>8. Short(path) => ancestor' = Directory!NoPath
      BY <3>3
    <3>9. ~debouncing => hdfsRootPath = path /\ (~apart => shown = path)
      BY DEF DirectoryInv
    <3>. QED
      BY <2>1, <3>4, <3>5, <3>6, <3>7, <3>8, <3>9
      DEF DirectoryInv, Directory!SpinsForListing, Short, WhatIsAt
  <2>6. CASE ~inProgress /\ ancestor = Directory!NoPath
    <3>1. /\ fileCall' = Directory!NoListing /\ UNCHANGED <<lastResult, ancestor, verdict>>
      BY <1>7, <2>6 DEF Directory!ListFilesDone
    <3>2. DirectoryTypes'
      BY <1>0, <2>1, <2>2, <2>3, <3>1 DEF DirectoryTypes
    <3>. QED
      BY <2>1, <2>6, <3>1, <3>2 DEF DirectoryInv, Directory!SpinsForListing, Short, WhatIsAt
  <2>7. CASE ~inProgress /\ ancestor # Directory!NoPath
    <3>. DEFINE from == IF Directory!Exists(p) THEN ancestor ELSE Directory!Root
    <3>1. UNCHANGED lastResult /\ Directory!CheckAncestors(from, known, Directory!NoListing)
      BY <1>7, <2>7 DEF Directory!ListFilesDone
    <3>2. from \in Directory!Paths
      BY <1>0, <2>7 DEF DirectoryTypes, Directory!Paths, Directory!Root, Directories
    <3>. HIDE DEF from, known
    <3>3. \/ /\ ancestor' = Directory!NoPath /\ fileCall' = Directory!NoListing
             /\ verdict' = "none"
          \/ /\ ancestor' \in Directory!Paths /\ verdict' = "pending"
             /\ fileCall' = Directory!ListFiles(ancestor', "ancestor")
      BY <2>2, <2>3, <3>1, <3>2, AncestorsChecked
    <3>4. /\ fileCall' \in DirectoryCalls
          /\ ancestor' \in Directory!Paths \cup {Directory!NoPath}
          /\ verdict' \in {"none", "pending"}
          /\ ancestor' # Directory!NoPath => fileCall' # Directory!NoListing
      BY <2>3, <2>4, <3>3
    <3>5. DirectoryTypes'
      BY <1>0, <2>1, <2>2, <3>1, <3>4 DEF DirectoryTypes
    <3>6. debouncing \/ ~Short(path)
      BY <2>7 DEF DirectoryInv
    <3>. QED
      BY <2>1, <2>7, <3>1, <3>4, <3>5, <3>6 DEF DirectoryInv, Directory!SpinsForListing, Short
  <2>. QED  BY <2>5, <2>6, <2>7
<1>. QED  BY <1>1, <1>3, <1>4, <1>5, <1>6, <1>7 DEF Directory!Next

\* The invariant of the directory gives its types and its properties.
LEMMA DirectoryFitsInv ==
  ASSUME DirectoryInv
  PROVE  Directory!DirectoryFits /\ Directory!SpinsForListing /\ Directory!TypeOK
<1>1. Directory!DirectoryFits
  BY DEF DirectoryInv, Directory!SpinsForListing, Directory!DirectoryFits, Short, WhatIsAt
<1>2. /\ fileCall.path \in Directory!Paths \cup {Directory!NoPath}
      /\ fileCall.by \in {"none", "browser", "encryption", "ancestor"}
  BY DEF DirectoryInv, DirectoryTypes, DirectoryCalls, Directory!NoListing
<1>. QED  BY <1>1, <1>2 DEF DirectoryInv, DirectoryTypes, Directory!TypeOK

-----------------------------------------------------------------------------
(* The pages of pairings. *)

PairCalls == [phase : {"sent", "answered", "failed"}, of : Pairings!Pairs] \cup {Pairings!NoCall}

PairingTypes ==
  /\ server \subseteq Pairings!Pairs /\ fit \subseteq Clusters /\ route \in {"pairings", "create"}
  /\ pairings \subseteq Pairings!Keys /\ pairingProgress \in Pairings!PROGRESS_STATUS
  /\ loading \in [phase : {"sent", "answered"}, of : SUBSET Pairings!Keys] \cup {Pairings!NoCall}
  /\ creating \in PairCalls
  /\ deleting \in [phase : {"sent", "answered", "failed"}, of : Pairings!Keys]
                    \cup {Pairings!NoCall}
  /\ loadingClusters \in BOOLEAN /\ isPairingProgress \in BOOLEAN
  /\ confirming \in Pairings!Keys \cup {<<>>}
  /\ {firstClusterId, selectedFirst, selectedSecond} \subseteq Clusters \cup {NoCluster}
  /\ secondSet \subseteq Clusters

\* Two clusters that may be paired, for all that the store knows.
MayPair(c, d, keys) ==
  /\ c \in Clusters /\ d \in Clusters \ {c} /\ (c \in Is10 <=> d \in Is10)
  /\ \A key \in keys : Pairings!PairOf(key) # {c, d}

\* What can be chosen, and what was, may be paired; while a pair is made no list comes
\* that could bring it; the page that is left keeps no choice.
PairingInv ==
  /\ PairingTypes
  /\ \A d \in secondSet \cup ({selectedSecond} \ {NoCluster}) : MayPair(selectedFirst, d, pairings)
  /\ isPairingProgress => route = "create" /\ loading = Pairings!NoCall
  /\ route = "pairings" => /\ secondSet = {}
                           /\ selectedFirst = NoCluster /\ selectedSecond = NoCluster

\* Two clusters that differ make a pair.
LEMMA PairsAre ==
  ASSUME NEW c \in Clusters, NEW d \in Clusters
  PROVE  {c, d} \in Pairings!Pairs <=> c # d
<1>1. IsFiniteSet({c, d}) /\ (Cardinality({c, d}) = 2 <=> c # d)
  <2>1. IsFiniteSet({c}) /\ Cardinality({c}) = 1
    BY FS_Singleton
  <2>2. /\ IsFiniteSet({c} \cup {d})
        /\ Cardinality({c} \cup {d}) = IF d \in {c} THEN Cardinality({c}) ELSE Cardinality({c}) + 1
    BY <2>1, FS_AddElement
  <2>3. {c, d} = {c} \cup {d}
    OBVIOUS
  <2>. QED  BY <2>1, <2>2, <2>3
<1>2. Pairings!Cardinality({c, d}) = Cardinality({c, d})
  BY Zenon DEF Pairings!Cardinality, Cardinality
<1>. QED  BY <1>1, <1>2 DEF Pairings!Pairs

\* A key in the store is of a pair.
LEMMA KeysAre ==
  ASSUME NEW key \in Pairings!Keys
  PROVE  Pairings!PairOf(key) \in Pairings!Pairs
<1>1. key[1] \in Clusters /\ key[2] \in Clusters /\ key[1] # key[2]
  BY DEF Pairings!Keys
<1>. QED  BY <1>1, PairsAre DEF Pairings!PairOf

\* What is no call, and a call.
LEMMA PairingCalls ==
  /\ Pairings!NoCall.phase = "none"
  /\ \A of : /\ Pairings!Call(of) = [phase |-> "sent", of |-> of]
             /\ Pairings!Call(of).phase = "sent" /\ Pairings!Call(of).of = of
             /\ Pairings!Call(of) # Pairings!NoCall
  BY DEF Pairings!NoCall, Pairings!Call

\* The invariant of the page of pairings holds at first.
LEMMA PairingInvStarts ==
  ASSUME Init
  PROVE  PairingInv
<1>1. Pairings!Init /\ Initially \subseteq Pairings!Pairs /\ NoCluster \notin Clusters
  BY WebPagesConstants DEF Init, Pairings!PairingPagesConstants
<1>2. Pairings!Call({}) \in [phase : {"sent", "answered"}, of : SUBSET Pairings!Keys]
  BY PairingCalls
<1>3. /\ server \subseteq Pairings!Pairs /\ fit = Clusters /\ route = "pairings" /\ pairings = {}
      /\ pairingProgress = "init" /\ loading = Pairings!Call({}) /\ loadingClusters = FALSE
      /\ creating = Pairings!NoCall /\ deleting = Pairings!NoCall /\ confirming = <<>>
      /\ firstClusterId = NoCluster /\ selectedFirst = NoCluster /\ selectedSecond = NoCluster
      /\ secondSet = {} /\ isPairingProgress = FALSE
  BY <1>1 DEF Pairings!Init
<1>4. PairingTypes
  BY <1>2, <1>3 DEF PairingTypes, PairCalls, Pairings!PROGRESS_STATUS
<1>. QED  BY <1>3, <1>4 DEF PairingInv

\* Choosing a first cluster.
LEMMA SelectedMayPair ==
  ASSUME NEW keys, NEW c \in Clusters, Pairings!Select(keys, c)
  PROVE  /\ selectedFirst' = c /\ selectedSecond' = NoCluster /\ secondSet' \subseteq Clusters
         /\ \A d \in secondSet' : MayPair(c, d, keys)
<1>1. /\ selectedFirst' = c /\ selectedSecond' = NoCluster
      /\ secondSet' = Pairings!SecondSet(keys, c)
  BY DEF Pairings!Select
<1>2. ASSUME NEW d \in Pairings!SecondSet(keys, c)
      PROVE  d \in Clusters /\ MayPair(c, d, keys)
  <2>1. d \in Clusters \ {c} /\ d \notin Pairings!PairedIn(keys, c) /\ (d \in Is10 <=> c \in Is10)
    BY <1>2 DEF Pairings!SecondSet
  <2>2. \A key \in keys : Pairings!PairOf(key) # {c, d}
    BY <2>1 DEF Pairings!PairedIn
  <2>. QED  BY <2>1, <2>2 DEF MayPair
<1>. QED  BY <1>1, <1>2

\* The first cluster is selected again when pairings come or go.
LEMMA ReselectedMayPair ==
  ASSUME PairingInv, NEW keys \in SUBSET Pairings!Keys, Pairings!Reselect(keys),
         isPairingProgress => keys \subseteq pairings
  PROVE  /\ selectedFirst' = selectedFirst
         /\ {selectedFirst', selectedSecond'} \subseteq Clusters \cup {NoCluster}
         /\ secondSet' \subseteq Clusters
         /\ \A d \in secondSet' \cup ({selectedSecond'} \ {NoCluster}) :
              MayPair(selectedFirst', d, keys)
         /\ route = "pairings" => UNCHANGED <<selectedSecond, secondSet>>
<1>0. NoCluster \notin Clusters
  BY WebPagesConstants DEF Pairings!PairingPagesConstants
<1>1. CASE route = "create" /\ keys # {} /\ selectedFirst # NoCluster /\ ~isPairingProgress
  <2>1. Pairings!Select(keys, selectedFirst) /\ selectedFirst \in Clusters
    BY <1>1 DEF Pairings!Reselect, PairingInv, PairingTypes
  <2>. QED  BY <1>1, <2>1, SelectedMayPair
<1>2. CASE ~(route = "create" /\ keys # {} /\ selectedFirst # NoCluster /\ ~isPairingProgress)
  <2>1. UNCHANGED <<selectedFirst, selectedSecond, secondSet>>
    BY <1>2 DEF Pairings!Reselect
  <2>2. ASSUME NEW d \in secondSet \cup ({selectedSecond} \ {NoCluster})
        PROVE  MayPair(selectedFirst, d, keys)
    <3>1. MayPair(selectedFirst, d, pairings) /\ selectedFirst \in Clusters
      BY <2>2 DEF PairingInv, MayPair
    <3>2. route = "create" /\ selectedFirst # NoCluster
      BY <1>0, <2>2, <3>1 DEF PairingInv, PairingTypes
    <3>3. keys = {} \/ keys \subseteq pairings
      BY <1>2, <3>2
    <3>. QED  BY <3>1, <3>3 DEF MayPair
  <2>. QED  BY <2>1, <2>2 DEF PairingInv, PairingTypes
<1>. QED  BY <1>1, <1>2

\* Choosing by the user, or by the route.
LEMMA SelectionKeepsInv ==
  ASSUME PairingInv, NEW c \in Clusters, Pairings!Select(pairings, c), route = "create",
         UNCHANGED <<server, fit, route, pairings, pairingProgress, loading, loadingClusters,
                     creating, deleting, confirming, isPairingProgress>>,
         firstClusterId' \in Clusters \cup {NoCluster}
  PROVE  PairingInv'
<1>1. /\ selectedFirst' = c /\ selectedSecond' = NoCluster /\ secondSet' \subseteq Clusters
      /\ \A d \in secondSet' : MayPair(c, d, pairings)
  BY SelectedMayPair
<1>2. PairingTypes'
  BY <1>1 DEF PairingInv, PairingTypes, PairCalls
<1>. QED  BY <1>1, <1>2 DEF PairingInv, MayPair

\* Going to the page of pairings.
LEMMA LeavingKeepsInv ==
  ASSUME PairingInv, Pairings!ToPairings, creating' \in PairCalls,
         pairingProgress' \in Pairings!PROGRESS_STATUS,
         UNCHANGED <<server, fit, pairings, loadingClusters, deleting, confirming>>
  PROVE  PairingInv'
<1>1. Pairings!Call({}) \in [phase : {"sent", "answered"}, of : SUBSET Pairings!Keys]
  BY PairingCalls
<1>2. /\ route' = "pairings" /\ loading' = Pairings!Call({})
      /\ firstClusterId' = NoCluster /\ selectedFirst' = NoCluster /\ selectedSecond' = NoCluster
      /\ secondSet' = {} /\ isPairingProgress' = FALSE
  BY DEF Pairings!ToPairings
<1>3. PairingTypes'
  BY <1>1, <1>2 DEF PairingInv, PairingTypes, PairCalls
<1>. QED  BY <1>2, <1>3 DEF PairingInv

\* Steps that concern neither the choice nor the list of the page.
LEMMA RestKeepsInv ==
  ASSUME PairingInv, PairingTypes', pairings' \subseteq pairings,
         UNCHANGED <<route, selectedFirst, selectedSecond, secondSet>>,
         isPairingProgress' => isPairingProgress,
         isPairingProgress' => loading' = loading
  PROVE  PairingInv'
<1>1. \A c, d : MayPair(c, d, pairings) => MayPair(c, d, pairings')
  BY DEF MayPair
<1>. QED  BY <1>1 DEF PairingInv, MayPair

\* Pairings that come with a list, or one that goes.
LEMMA ListedKeepsInv ==
  ASSUME PairingInv, pairings' \subseteq Pairings!Keys, Pairings!Reselect(pairings'),
         isPairingProgress => pairings' \subseteq pairings,
         pairingProgress' \in Pairings!PROGRESS_STATUS,
         UNCHANGED <<server, fit, route, loadingClusters, creating, confirming, firstClusterId,
                     isPairingProgress>>,
         loading' \in {loading, Pairings!NoCall}, deleting' \in {deleting, Pairings!NoCall}
  PROVE  PairingInv'
<1>1. PICK keys : keys = pairings'
  OBVIOUS
<1>2. Pairings!Reselect(keys)
  BY <1>1
<1>3. /\ selectedFirst' = selectedFirst
      /\ {selectedFirst', selectedSecond'} \subseteq Clusters \cup {NoCluster}
      /\ secondSet' \subseteq Clusters
      /\ \A d \in secondSet' \cup ({selectedSecond'} \ {NoCluster}) :
           MayPair(selectedFirst', d, keys)
      /\ route = "pairings" => UNCHANGED <<selectedSecond, secondSet>>
  BY <1>1, <1>2, ReselectedMayPair
<1>4. PairingTypes'
  BY <1>3 DEF PairingInv, PairingTypes, PairCalls
<1>. QED  BY <1>1, <1>3, <1>4 DEF PairingInv, MayPair

\* Every step of the page of pairings keeps its invariant.
LEMMA PairingInvKept ==
  ASSUME PairingInv, [Pairings!Next]_pairingVars
  PROVE  PairingInv'
<1>. USE DEF Pairings!store, Pairings!form, Pairings!bounds
<1>0. /\ PairingTypes /\ NoCluster \notin Clusters /\ Params \subseteq Clusters \cup {NoCluster}
      /\ isPairingProgress => route = "create" /\ loading = Pairings!NoCall
  BY WebPagesConstants DEF PairingInv, Pairings!PairingPagesConstants
<1>1. CASE UNCHANGED pairingVars
  <2>1. PairingTypes'
    BY <1>0, <1>1 DEF pairingVars, PairingTypes, PairCalls
  <2>. QED  BY <1>1, <2>1, RestKeepsInv DEF pairingVars
<1>2. ASSUME NEW c \in Clusters, Pairings!OnFirstClusterChange(c)
      PROVE  PairingInv'
  <2>1. /\ Pairings!Select(pairings, c) /\ route = "create"
        /\ UNCHANGED <<server, fit, route, pairings, pairingProgress, loading, loadingClusters,
                       creating, deleting, confirming, isPairingProgress, firstClusterId>>
    BY <1>2 DEF Pairings!OnFirstClusterChange, Pairings!Shown
  <2>2. firstClusterId' \in Clusters \cup {NoCluster}
    BY <1>0, <2>1 DEF PairingTypes
  <2>. QED  BY <2>1, <2>2, SelectionKeepsInv
<1>3. CASE Pairings!LoadRouteParams
  <2>1. /\ route = "create" /\ firstClusterId # NoCluster /\ firstClusterId' = NoCluster
        /\ UNCHANGED <<server, fit, route, pairings, pairingProgress, loading, loadingClusters,
                       creating, deleting, confirming, isPairingProgress>>
        /\ \/ UNCHANGED <<selectedFirst, selectedSecond, secondSet>>
           \/ Pairings!Select(pairings, firstClusterId)
    BY <1>3 DEF Pairings!LoadRouteParams
  <2>2. firstClusterId \in Clusters
    BY <1>0, <2>1 DEF PairingTypes
  <2>3. CASE UNCHANGED <<selectedFirst, selectedSecond, secondSet>>
    <3>1. PairingTypes'
      BY <1>0, <2>1, <2>3 DEF PairingTypes, PairCalls
    <3>. QED  BY <2>1, <2>3, <3>1, RestKeepsInv
  <2>4. CASE Pairings!Select(pairings, firstClusterId)
    BY <2>1, <2>2, <2>4, SelectionKeepsInv
  <2>. QED  BY <2>1, <2>3, <2>4
<1>4. ASSUME NEW c \in Clusters, Pairings!SelectSecondCluster(c)
      PROVE  PairingInv'
  <2>1. /\ c \in secondSet /\ selectedSecond' = c /\ route = "create"
        /\ UNCHANGED <<server, fit, route, pairings, pairingProgress, loading, loadingClusters,
                       creating, deleting, confirming, firstClusterId, selectedFirst, secondSet,
                       isPairingProgress>>
    BY <1>4 DEF Pairings!SelectSecondCluster, Pairings!Shown
  <2>2. PairingTypes'
    BY <1>0, <2>1 DEF PairingTypes, PairCalls
  <2>. QED  BY <2>1, <2>2 DEF PairingInv, MayPair
<1>5. CASE Pairings!HandleSubmit
  <2>1. /\ route = "create" /\ loading = Pairings!NoCall /\ selectedSecond # NoCluster
        /\ isPairingProgress' = TRUE /\ creating' = Pairings!Call({selectedFirst, selectedSecond})
        /\ UNCHANGED <<server, fit, route, pairings, pairingProgress, loading, loadingClusters,
                       deleting, confirming, firstClusterId, selectedFirst, selectedSecond,
                       secondSet>>
    BY <1>5 DEF Pairings!HandleSubmit, Pairings!Submittable, Pairings!Shown
  <2>2. {selectedFirst, selectedSecond} \in Pairings!Pairs
    <3>1. MayPair(selectedFirst, selectedSecond, pairings)
      BY <2>1 DEF PairingInv
    <3>. QED  BY <3>1, PairsAre DEF MayPair
  <2>3. creating' \in PairCalls
    BY <2>1, <2>2, PairingCalls DEF PairCalls
  <2>4. PairingTypes'
    BY <1>0, <2>1, <2>3 DEF PairingTypes
  <2>. QED  BY <2>1, <2>4 DEF PairingInv, MayPair
<1>6. CASE Pairings!LeaveCreate
  <2>1. /\ Pairings!ToPairings
        /\ UNCHANGED <<server, fit, pairings, pairingProgress, loadingClusters, creating, deleting,
                       confirming>>
    BY <1>6 DEF Pairings!LeaveCreate
  <2>. QED  BY <1>0, <2>1, LeavingKeepsInv DEF PairingTypes
<1>7. CASE Pairings!CreatePairingClick
  <2>1. /\ route = "pairings" /\ loadingClusters' = TRUE /\ loading' = Pairings!Call({})
        /\ UNCHANGED <<server, fit, pairings, pairingProgress, creating, deleting, confirming,
                       selectedFirst, selectedSecond, secondSet, isPairingProgress>>
        /\ \/ UNCHANGED <<route, firstClusterId>>
           \/ route' = "create" /\ firstClusterId' \in Params
    BY <1>7 DEF Pairings!CreatePairingClick
  <2>2. loading' \in [phase : {"sent", "answered"}, of : SUBSET Pairings!Keys]
    BY <2>1, PairingCalls
  <2>3. PairingTypes'
    BY <1>0, <2>1, <2>2 DEF PairingTypes, PairCalls
  <2>4. ~isPairingProgress
    BY <1>0, <2>1
  <2>. QED  BY <2>1, <2>3, <2>4 DEF PairingInv, MayPair
<1>8. CASE Pairings!ClustersLoaded \/ Pairings!StatusesLoaded
  <2>1. /\ UNCHANGED <<server, route, pairings, pairingProgress, loading, creating, deleting,
                       confirming, firstClusterId, selectedFirst, selectedSecond, secondSet,
                       isPairingProgress>>
        /\ loadingClusters' \in {loadingClusters, FALSE}
    BY <1>8 DEF Pairings!ClustersLoaded, Pairings!StatusesLoaded
  <2>2. fit' \subseteq Clusters
    BY <1>0, <1>8 DEF Pairings!ClustersLoaded, Pairings!StatusesLoaded, PairingTypes
  <2>3. PairingTypes'
    BY <1>0, <2>1, <2>2 DEF PairingTypes, PairCalls
  <2>. QED  BY <2>1, <2>3, RestKeepsInv
<1>9. ASSUME NEW key \in Pairings!Keys, Pairings!OnUnpair(key)
      PROVE  PairingInv'
  <2>1. /\ confirming' = key
        /\ UNCHANGED <<server, fit, route, pairings, pairingProgress, loading, loadingClusters,
                       creating, deleting, firstClusterId, selectedFirst, selectedSecond,
                       secondSet, isPairingProgress>>
    BY <1>9 DEF Pairings!OnUnpair
  <2>2. PairingTypes'
    BY <1>0, <2>1 DEF PairingTypes, PairCalls
  <2>. QED  BY <2>1, <2>2, RestKeepsInv
<1>10. ASSUME NEW b \in BOOLEAN, Pairings!CloseDialog(b)
       PROVE  PairingInv'
  <2>1. /\ confirming # <<>> /\ confirming' = <<>>
        /\ deleting' \in {deleting, [phase |-> "sent", of |-> confirming]}
        /\ UNCHANGED <<server, fit, route, pairings, pairingProgress, loading, loadingClusters,
                       creating, firstClusterId, selectedFirst, selectedSecond, secondSet,
                       isPairingProgress>>
    BY <1>10 DEF Pairings!CloseDialog
  <2>2. confirming \in Pairings!Keys
    BY <1>0, <2>1 DEF PairingTypes
  <2>3. PairingTypes'
    BY <1>0, <2>1, <2>2 DEF PairingTypes, PairCalls
  <2>. QED  BY <2>1, <2>3, RestKeepsInv
<1>11. ASSUME NEW pair \in Pairings!Pairs, Pairings!OtherUser(pair)
       PROVE  PairingInv'
  <2>1. /\ server' \in {server \ {pair}, server \cup {pair}}
        /\ UNCHANGED <<fit, route, pairings, pairingProgress, loading, loadingClusters,
                       creating, deleting, confirming, firstClusterId, selectedFirst,
                       selectedSecond, secondSet, isPairingProgress>>
    BY <1>11 DEF Pairings!OtherUser
  <2>2. PairingTypes'
    BY <1>0, <2>1 DEF PairingTypes, PairCalls
  <2>. QED  BY <2>1, <2>2, RestKeepsInv
<1>12. CASE Pairings!ServeList
  <2>1. PICK l \in Pairings!Lists : loading' = [phase |-> "answered", of |-> l]
    BY <1>12 DEF Pairings!ServeList
  <2>2. /\ loading.phase = "sent"
        /\ UNCHANGED <<server, fit, route, pairings, pairingProgress, loadingClusters, creating,
                       deleting, confirming, firstClusterId, selectedFirst, selectedSecond,
                       secondSet, isPairingProgress>>
    BY <1>12 DEF Pairings!ServeList
  <2>3. l \subseteq Pairings!Keys /\ ~isPairingProgress
    BY <1>0, <2>2, PairingCalls DEF Pairings!Lists
  <2>4. PairingTypes'
    BY <1>0, <2>1, <2>2, <2>3 DEF PairingTypes, PairCalls
  <2>. QED  BY <2>2, <2>3, <2>4, RestKeepsInv
<1>13. CASE Pairings!ServeCreate
  <2>1. /\ creating.phase = "sent"
        /\ creating' \in {[creating EXCEPT !.phase = "answered"], [creating EXCEPT !.phase = "failed"]}
        /\ server' \in {server, server \cup {creating.of}}
        /\ UNCHANGED <<fit, route, pairings, pairingProgress, loading, loadingClusters, deleting,
                       confirming, firstClusterId, selectedFirst, selectedSecond, secondSet,
                       isPairingProgress>>
    BY <1>13 DEF Pairings!ServeCreate
  <2>2. creating \in [phase : {"sent", "answered", "failed"}, of : Pairings!Pairs]
    BY <1>0, <2>1, PairingCalls DEF PairingTypes, PairCalls
  <2>3. creating' \in PairCalls /\ server' \subseteq Pairings!Pairs
    BY <1>0, <2>1, <2>2 DEF PairingTypes, PairCalls
  <2>4. PairingTypes'
    BY <1>0, <2>1, <2>3 DEF PairingTypes
  <2>. QED  BY <2>1, <2>4, RestKeepsInv
<1>14. CASE Pairings!ServeDelete
  <2>1. /\ deleting.phase = "sent"
        /\ deleting' \in {[deleting EXCEPT !.phase = "answered"], [deleting EXCEPT !.phase = "failed"]}
        /\ server' \subseteq server
        /\ UNCHANGED <<fit, route, pairings, pairingProgress, loading, loadingClusters, creating,
                       confirming, firstClusterId, selectedFirst, selectedSecond, secondSet,
                       isPairingProgress>>
    BY <1>14 DEF Pairings!ServeDelete
  <2>2. deleting \in [phase : {"sent", "answered", "failed"}, of : Pairings!Keys]
    BY <1>0, <2>1, PairingCalls DEF PairingTypes
  <2>3. deleting' \in [phase : {"sent", "answered", "failed"}, of : Pairings!Keys]
    BY <2>1, <2>2
  <2>4. PairingTypes'
    BY <1>0, <2>1, <2>3 DEF PairingTypes, PairCalls
  <2>. QED  BY <2>1, <2>4, RestKeepsInv
<1>15. CASE Pairings!LoadPairingsSuccess
  <2>1. /\ loading.phase = "answered" /\ loading' = Pairings!NoCall /\ pairingProgress' = "init"
        /\ pairings' = pairings \cup loading.of /\ Pairings!Reselect(pairings \cup loading.of)
        /\ UNCHANGED <<server, fit, route, loadingClusters, creating, deleting, confirming,
                       firstClusterId, isPairingProgress>>
    BY <1>15 DEF Pairings!LoadPairingsSuccess, Pairings!Reselect, Pairings!Select, Pairings!SecondSet
  <2>2. loading.of \subseteq Pairings!Keys /\ ~isPairingProgress
    BY <1>0, <2>1, PairingCalls DEF PairingTypes
  <2>. QED  BY <1>0, <2>1, <2>2, ListedKeepsInv DEF PairingTypes, Pairings!PROGRESS_STATUS
<1>16. CASE Pairings!LoadPairingsFail
  <2>1. /\ loading # Pairings!NoCall /\ loading' = Pairings!NoCall
        /\ UNCHANGED <<server, fit, route, pairings, pairingProgress, loadingClusters, creating,
                       deleting, confirming, firstClusterId, selectedFirst, selectedSecond,
                       secondSet, isPairingProgress>>
    BY <1>16 DEF Pairings!LoadPairingsFail
  <2>2. PairingTypes'
    BY <1>0, <2>1 DEF PairingTypes, PairCalls
  <2>. QED  BY <1>0, <2>1, <2>2, RestKeepsInv
<1>17. CASE Pairings!CreatePairingSuccess
  <2>1. /\ creating' = Pairings!NoCall /\ pairingProgress' = "success"
        /\ UNCHANGED <<server, fit, pairings, loadingClusters, deleting, confirming>>
        /\ \/ Pairings!ToPairings
           \/ UNCHANGED <<route, loading, firstClusterId, selectedFirst, selectedSecond, secondSet,
                          isPairingProgress>>
    BY <1>17 DEF Pairings!CreatePairingSuccess
  <2>2. creating' \in PairCalls /\ pairingProgress' \in Pairings!PROGRESS_STATUS
    BY <2>1 DEF PairCalls, Pairings!PROGRESS_STATUS
  <2>3. CASE Pairings!ToPairings
    BY <2>1, <2>2, <2>3, LeavingKeepsInv
  <2>4. CASE UNCHANGED <<route, loading, firstClusterId, selectedFirst, selectedSecond, secondSet,
                         isPairingProgress>>
    <3>1. PairingTypes'
      BY <1>0, <2>1, <2>2, <2>4 DEF PairingTypes
    <3>. QED  BY <2>1, <2>4, <3>1, RestKeepsInv
  <2>. QED  BY <2>1, <2>3, <2>4
<1>18. CASE Pairings!CreatePairingFail
  <2>1. /\ creating' = Pairings!NoCall /\ pairingProgress' = "failed" /\ isPairingProgress' = FALSE
        /\ UNCHANGED <<server, fit, route, pairings, loading, loadingClusters, deleting, confirming,
                       firstClusterId, selectedFirst, selectedSecond, secondSet>>
    BY <1>18 DEF Pairings!CreatePairingFail
  <2>2. PairingTypes'
    BY <1>0, <2>1 DEF PairingTypes, PairCalls, Pairings!PROGRESS_STATUS
  <2>. QED  BY <2>1, <2>2, RestKeepsInv
<1>19. CASE Pairings!DeletePairingSuccess
  <2>1. /\ deleting' = Pairings!NoCall /\ UNCHANGED pairingProgress
        /\ pairings' = pairings \ {deleting.of} /\ Pairings!Reselect(pairings \ {deleting.of})
        /\ UNCHANGED <<server, fit, route, loading, loadingClusters, creating, confirming,
                       firstClusterId, isPairingProgress>>
    BY <1>19 DEF Pairings!DeletePairingSuccess, Pairings!Reselect, Pairings!Select,
       Pairings!SecondSet
  <2>. QED  BY <1>0, <2>1, ListedKeepsInv DEF PairingTypes
<1>20. CASE Pairings!DeletePairingFail
  <2>1. /\ deleting' = Pairings!NoCall
        /\ UNCHANGED <<server, fit, route, pairings, pairingProgress, loading, loadingClusters,
                       creating, confirming, firstClusterId, selectedFirst, selectedSecond,
                       secondSet, isPairingProgress>>
    BY <1>20 DEF Pairings!DeletePairingFail
  <2>2. PairingTypes'
    BY <1>0, <2>1 DEF PairingTypes, PairCalls
  <2>. QED  BY <2>1, <2>2, RestKeepsInv
<1>. QED
  BY <1>1, <1>2, <1>3, <1>4, <1>5, <1>6, <1>7, <1>8, <1>9, <1>10, <1>11, <1>12, <1>13, <1>14, <1>15,
     <1>16, <1>17, <1>18, <1>19, <1>20
  DEF Pairings!Next

\* The invariant of the page of pairings gives its types and its property.
LEMMA PairingsFit ==
  ASSUME PairingInv
  PROVE  Pairings!PairsNew /\ Pairings!TypeOK
<1>1. ASSUME Pairings!Submittable
      PROVE  /\ {selectedFirst, selectedSecond}
                  \in Pairings!Pairs \ {Pairings!PairOf(key) : key \in pairings}
             /\ selectedFirst \in Is10 <=> selectedSecond \in Is10
  <2>1. MayPair(selectedFirst, selectedSecond, pairings)
    BY <1>1 DEF PairingInv, Pairings!Submittable
  <2>2. {selectedFirst, selectedSecond} \in Pairings!Pairs
    BY <2>1, PairsAre DEF MayPair
  <2>. QED  BY <2>1, <2>2 DEF MayPair
<1>2. {loading.phase, creating.phase, deleting.phase}
        \subseteq {"none", "sent", "answered", "failed"}
  BY PairingCalls DEF PairingInv, PairingTypes, PairCalls
<1>. QED  BY <1>1, <1>2 DEF PairingInv, PairingTypes, Pairings!PairsNew, Pairings!TypeOK

-----------------------------------------------------------------------------
(* The pages. *)

\* The invariants of the parts, all of which hold whichever part is at work.
WebInv ==
  /\ part \in Parts
  /\ PairingInv /\ AccountInv /\ AccountsInv /\ DirectoryInv
  /\ ClusterInv /\ SessionInv /\ ToastInv /\ RequestInv

\* The invariants of all pages hold.
LEMMA WebInvHolds ==
  Spec => []WebInv
<1>1. Init => WebInv
  BY PairingInvStarts, AccountInvStarts, AccountsInvStarts, DirectoryInvStarts, ClusterInvStarts,
     SessionInvStarts, ToastInvStarts, RequestInvStarts
  DEF Init, WebInv
<1>2. WebInv /\ [Next]_vars => WebInv'
  <2>. SUFFICES ASSUME WebInv, [Next]_vars
                PROVE  WebInv'
    OBVIOUS
  <2>1. /\ part \in Parts
        /\ PairingInv /\ AccountInv /\ AccountsInv /\ DirectoryInv
        /\ ClusterInv /\ SessionInv /\ ToastInv /\ RequestInv
    BY DEF WebInv
  <2>2. part' \in Parts
    BY <2>1, PartSteps DEF Parts
  <2>3. PairingInv' /\ AccountInv' /\ AccountsInv' /\ DirectoryInv'
    BY <2>1, PartSteps, PairingInvKept, AccountInvKept, AccountsInvKept, DirectoryInvKept
  <2>4. ClusterInv' /\ SessionInv' /\ ToastInv' /\ RequestInv'
    BY <2>1, PartSteps, ClusterInvKept, SessionInvKept, ToastInvKept, RequestInvKept
  <2>. QED  BY <2>2, <2>3, <2>4 DEF WebInv
<1>. QED  BY <1>1, <1>2, PTL DEF Spec

\* The variables of the part at work have their types.
THEOREM TypeCorrect ==
  Spec => []TypeOK
<1>1. WebInv => TypeOK
  BY PairingsFit, AccountFits, AccountsFit, DirectoryFitsInv, ClustersFit, SessionFits, ToastsFit,
     RequestsFit
  DEF WebInv, TypeOK
<1>. QED  BY <1>1, WebInvHolds, PTL

\* What is submitted is fit to be: a pair of two clusters that fit and that no pairing of
\* the store has; an account with keys that were found valid, under a free name; and a
\* directory is what the field says of it.
THEOREM SubmittedIsFit ==
  Spec => []SubmitsFit
<1>1. WebInv => SubmitsFit
  BY PairingsFit, AccountFits, DirectoryFitsInv DEF WebInv, SubmitsFit
<1>. QED  BY <1>1, WebInvHolds, PTL

\* What is shown as busy has a call behind it: progress of requests, whose calls cancel
\* one another, the buttons of an account's dialog, and the field of a directory.
THEOREM BusyHasItsCall ==
  Spec => []BusyForCall
<1>1. WebInv => BusyForCall
  BY AccountFits, DirectoryFitsInv DEF WebInv, RequestInv, BusyForCall
<1>. QED  BY <1>1, WebInvHolds, PTL

\* An observer is told the outcome of its own request or of a newer one, and when all is
\* done no progress is left but what is kept.
THEOREM OutcomesAreFit ==
  Spec => []OutcomesFit
<1>1. WebInv => OutcomesFit
  BY RequestsFit DEF WebInv, RequestInv, OutcomesFit
<1>. QED  BY <1>1, WebInvHolds, PTL

\* What is shown fits what there is: accounts that are listed and gone were deleted for a
\* reason, files are browsed where the Beacon had a definition, pairings are offered when
\* there are some left, there is one clock and one menu, and links lead to their errors.
THEOREM ShownIsFit ==
  Spec => []ShownFits
<1>1. WebInv => ShownFits
  BY AccountsFit, ClustersFit, SessionFits, ToastsFit DEF WebInv, ShownFits
<1>. QED  BY <1>1, WebInvHolds, PTL
=============================================================================

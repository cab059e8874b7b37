----------------------------- MODULE CloudStorage -----------------------------
(***************************************************************************)
(* services/CloudServiceImpl.scala, the factory and the services of S3,    *)
(* WASB and ADLS: whether the credentials of accounts are valid, and what  *)
(* is in a directory.  The keystore is read for the provider of an account *)
(* and once more by the service of this provider; meanwhile the account    *)
(* may be another one of the same name.  An exception ends the request of  *)
(* one account with an error, and that of all accounts with no answer.     *)
(*                                                                         *)
(* The clouds are not part of the source: what they hold has names with    *)
(* slashes.  On S3 an object whose name ends in a slash makes a directory; *)
(* elsewhere such a name stands for a directory that is empty.             *)
(***************************************************************************)
EXTENDS Naturals, Sequences, SequencesExt, FiniteSets

CONSTANTS StoreAccounts,
          Objects,        \* paths of files, and with an empty last name those of directories
          Directories,    \* that are looked into
          MaxKeys,        \* of a page of S3
          MaxReplaced     \* bound: accounts replaced while a request is served

Types == {"key", "role", "wasb", "adls"}
Provider == [t \in Types |-> IF t \in {"key", "role"} THEN "aws" ELSE t]

CloudStorageConstants ==
  /\ MaxReplaced \in Nat /\ MaxKeys \in Nat /\ \A o \in Objects \cup Directories : o \in Seq(STRING)
  /\ \A o \in Objects : o # <<>> /\ \A i \in 1..Len(o) - 1 : o[i] # ""

VARIABLES stored,     \* the keystore: of each account its type, if it is there
          alive,      \* whether the cloud still takes its credentials
          replaced,
          asking,     \* what is asked for
          waiting, built,   \* accounts not looked up yet, and the services of the others
          statuses, troubled, reached

storageVars == <<stored, alive, replaced, asking, waiting, built, statuses, troubled, reached>>

NotAsking == [kind |-> "none", dir |-> <<>>]
Unanswered == [phase |-> "pending", found |-> {}]
NoService == "none"

Init ==
  /\ stored \in [StoreAccounts -> Types \cup {"absent"}]
  /\ alive \in [StoreAccounts -> BOOLEAN] /\ replaced = 0
  /\ asking = NotAsking /\ waiting = {} /\ built = [a \in StoreAccounts |-> NoService]
  /\ statuses = {} /\ troubled = FALSE /\ reached = Unanswered

\* Other requests add, update and delete accounts.
Replace(a, t) ==
  /\ replaced < MaxReplaced /\ replaced' = replaced + 1 /\ asking.kind # "none" /\ t # stored[a]
  /\ stored' = [stored EXCEPT ![a] = t]
  /\ UNCHANGED <<alive, asking, waiting, built, statuses, troubled, reached>>

Served == asking.kind # "none" /\ reached.phase = "pending"
Around == <<stored, alive, replaced, asking>>

\* listFiles and checkUserIdentityValid of the controller are about one account.
AskOne(a, kind, dir) ==
  /\ asking = NotAsking /\ asking' = [kind |-> kind, dir |-> dir] /\ waiting' = {a}
  /\ UNCHANGED <<stored, alive, replaced, built, statuses, troubled, reached>>

\* checkValidityForAllCredentials: not those that are roles, whose credentials are none.
\* The keystore may not be readable.
EveryAccount == {a \in StoreAccounts : stored[a] # "absent"}
ToBeChecked == {a \in StoreAccounts : stored[a] \notin {"absent", "role"}}
AskAll ==
  /\ asking = NotAsking /\ asking' = [kind |-> "statuses", dir |-> <<>>]
  /\ \/ waiting' = ToBeChecked /\ UNCHANGED <<troubled, reached>>
     \/ waiting' = {} /\ troubled' = TRUE /\ reached' = [Unanswered EXCEPT !.phase = "error"]
  /\ UNCHANGED <<stored, alive, replaced, built, statuses>>

\* What becomes of an account: it has a status, or none, or its future fails.
Drop(a) == waiting' = waiting \ {a} /\ UNCHANGED <<statuses, reached>>
Status(a, s) == waiting' = waiting \ {a} /\ statuses' = statuses \cup {<<a, s>>} /\ UNCHANGED reached
Throw ==
  /\ reached' = [Unanswered EXCEPT !.phase = IF asking.kind = "statuses" THEN "never" ELSE "error"]
  /\ UNCHANGED <<waiting, statuses>>

\* CloudServiceFactory.build
BuildByType(a) ==
  /\ Served /\ a \in waiting /\ built[a] = NoService
  /\ built' = [built EXCEPT ![a] = stored[a]] /\ UNCHANGED <<waiting, statuses, troubled, reached, Around>>

Build(a) ==
  /\ Served /\ a \in waiting /\ built[a] = NoService
  /\ \/ /\ stored[a] # "absent" /\ built' = [built EXCEPT ![a] = Provider[stored[a]]]
        /\ UNCHANGED <<waiting, statuses, troubled, reached>>
     \/ stored[a] = "absent" /\ Drop(a) /\ UNCHANGED <<built, troubled>>
     \/ Drop(a) /\ troubled' = TRUE /\ UNCHANGED built
  /\ UNCHANGED Around

\* A cast to the credentials of S3, or a key that a role does not have: uncaught.  So is
\* that of ADLS; that of WASB is caught.
Mismatch(a) ==
  CASE built[a] = "aws" -> stored[a] # "key"
    [] built[a] = "adls" -> stored[a] # "adls"
    [] OTHER -> FALSE

Matches(a) == ~Mismatch(a) /\ (built[a] = "wasb" => stored[a] = "wasb") /\ stored[a] # "absent"

\* checkUserIdentityValid of S3 catches what the cloud answers, not that it cannot be
\* reached; those of WASB and ADLS take an account for active if a list can be had.
AlwaysActive(a) ==
  /\ Served /\ asking.kind # "list" /\ a \in waiting /\ built[a] # NoService
  /\ Status(a, "ACTIVE") /\ UNCHANGED <<Around, built, troubled>>

CheckIdentity(a) ==
  /\ Served /\ asking.kind # "list" /\ a \in waiting /\ built[a] # NoService
  /\ \/ /\ UNCHANGED troubled
        /\ IF stored[a] = "absent" THEN Drop(a)
           ELSE IF Mismatch(a) THEN Throw
           ELSE IF built[a] = "wasb" /\ stored[a] # "wasb" THEN Drop(a)
           ELSE IF alive[a] THEN Status(a, "ACTIVE")
           ELSE IF built[a] = "aws" THEN Status(a, "EXPIRED")
           ELSE Drop(a)
     \/ Drop(a) /\ troubled' = TRUE
     \/ built[a] = "aws" /\ Throw /\ troubled' = TRUE
  /\ UNCHANGED <<Around, built>>

AnswerStatuses ==
  /\ Served /\ asking.kind # "list" /\ waiting = {}
  /\ reached' = IF asking.kind = "identity" /\ statuses = {} THEN [Unanswered EXCEPT !.phase = "error"]
                ELSE [phase |-> "ok", found |-> statuses]
  /\ UNCHANGED <<Around, waiting, built, statuses, troubled>>

-----------------------------------------------------------------------------
(* Files. *)

Below(dir) == {o \in Objects : IsStrictPrefix(dir, o)}
IsMarker(o) == Last(o) = ""
Named(o) == IF IsMarker(o) THEN Front(o) ELSE o

\* S3 lists a page of what is below, at any depth, and no more is asked for.
Pages(dir) ==
  {page \in SUBSET Below(dir) :
     IF Cardinality(Below(dir)) <= MaxKeys THEN page = Below(dir) ELSE Cardinality(page) = MaxKeys}

\* AmazonS3Service.listFiles: objects of the page with one name after the directory's,
\* which may end in a slash.
AnyDepth(dir, page) ==
  {<<Last(Named(o)), IF IsMarker(o) THEN "DIRECTORY" ELSE "FILE">> : o \in page \ {Append(dir, "")}}
FilesOfS3(dir, page) ==
  {<<Last(Named(o)), IF IsMarker(o) THEN "DIRECTORY" ELSE "FILE">> :
     o \in {o \in page : Len(Named(o)) = Len(dir) + 1}}

\* WASBService and ADLSService: names that go on are directories.
FilesOfAzure(dir) ==
  {<<o[Len(dir) + 1], IF Len(o) > Len(dir) + 1 THEN "DIRECTORY" ELSE "FILE">> :
     o \in {o \in Below(dir) : o[Len(dir) + 1] # ""}}

ListFiles(a) ==
  /\ Served /\ asking.kind = "list" /\ a \in waiting /\ built[a] # NoService
  /\ waiting' = waiting \ {a} /\ UNCHANGED <<Around, built, statuses>>
  /\ \/ /\ Matches(a) /\ alive[a]
        /\ \E page \in Pages(asking.dir) :
             reached' = [phase |-> "ok", found |-> IF built[a] = "aws" THEN FilesOfS3(asking.dir, page)
                                                      ELSE FilesOfAzure(asking.dir)]
        /\ UNCHANGED troubled
     \/ /\ ~(Matches(a) /\ alive[a])
        /\ reached' = [Unanswered EXCEPT !.phase = "error"] /\ UNCHANGED troubled
     \/ reached' = [Unanswered EXCEPT !.phase = "error"] /\ troubled' = TRUE

\* The account was not found.
NoFiles ==
  /\ Served /\ asking.kind = "list" /\ waiting = {}
  /\ reached' = [Unanswered EXCEPT !.phase = "error"]
  /\ UNCHANGED <<Around, waiting, built, statuses, troubled>>

Proceed ==
  \/ AnswerStatuses \/ NoFiles
  \/ \E a \in StoreAccounts : Build(a) \/ CheckIdentity(a) \/ ListFiles(a)

Next ==
  \/ Proceed \/ AskAll
  \/ \E a \in StoreAccounts :
       \/ \E t \in Types \cup {"absent"} : Replace(a, t)
       \/ AskOne(a, "identity", <<>>)
       \/ \E dir \in Directories : AskOne(a, "list", dir)

Spec == Init /\ [][Next]_storageVars /\ WF_storageVars(Proceed)

-----------------------------------------------------------------------------
(* Properties. *)

TypeOK ==
  /\ stored \in [StoreAccounts -> Types \cup {"absent"}] /\ replaced \in 0..MaxReplaced
  /\ waiting \subseteq StoreAccounts /\ built \in [StoreAccounts -> {NoService, "aws", "wasb", "adls"}]
  /\ reached.phase \in {"pending", "ok", "error", "never"}

\* An account is called active only if its cloud takes it, and of all accounts, if none
\* was replaced and every call came through, those without a status are roles or those
\* of Azure that are not taken.
StatusesFit ==
  /\ \A s \in statuses : s[2] = "ACTIVE" <=> alive[s[1]]
  /\ asking.kind = "statuses" /\ reached.phase = "ok" /\ replaced = 0 /\ ~troubled =>
       {s[1] : s \in reached.found} =
         {a \in StoreAccounts : stored[a] = "key" \/ (stored[a] \in {"wasb", "adls"} /\ alive[a])}

\* A list has the names right below the directory, but on S3 a directory only if it is an
\* object of its own, and not all if there is more below than a page holds.
FilesFit ==
  asking.kind = "list" /\ reached.phase = "ok" =>
    LET dir == asking.dir
        at == Len(dir) + 1
        names == {o[at] : o \in Below(dir)} \ {""}
        isDir(n) == \E o \in Below(dir) : o[at] = n /\ Len(o) > at
        own(n) == Append(dir, n) \in Objects \/ dir \o <<n, "">> \in Objects
    IN /\ \A f \in reached.found : f[1] \in names /\ (f[2] = "DIRECTORY" => isDir(f[1]))
       /\ Cardinality(Below(dir)) <= MaxKeys =>
            \A n \in names : own(n) => \E f \in reached.found : f[1] = n
       /\ (\E a \in StoreAccounts : built[a] \in {"wasb", "adls"}) =>
            {f[1] : f \in reached.found} = names

\* Every request is answered, but the one about all accounts if a cloud of Amazon cannot
\* be reached or an account was replaced meanwhile.
StorageEnds ==
  asking.kind # "none" ~>
    \/ reached.phase \in {"ok", "error"}
    \/ reached.phase = "never" /\ asking.kind = "statuses" /\ (troubled \/ replaced > 0)
=============================================================================

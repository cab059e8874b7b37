--------------------------- MODULE SourceDirectory ---------------------------
(***************************************************************************)
(* The directory of a policy's source: the field of the step               *)
(* (setupDirectoryChanges and setupSourceEncryptionUpdate of               *)
(* step-source.component.ts), the browser beside it                        *)
(* (hdfs-browser.component.ts) and the listings of HDFS that they, the     *)
(* check for encryption and the check for snapshottable ancestors          *)
(* (hdfs.service.ts) ask for.  All go through one effect, which forgets    *)
(* the call before, and a completed call completes the progress of every   *)
(* one (progress.reducer.ts).  What the step thinks of the directory comes *)
(* from the progress of the browser's listing.                             *)
(*                                                                         *)
(* A path is the sequence of its names.  A listing fails when there is     *)
(* nothing at its path; nothing is snapshottable.  The cluster is chosen,  *)
(* submitted, and its root was listed.                                     *)
(***************************************************************************)
EXTENDS Naturals, Sequences, SequencesExt

CONSTANTS Directories, Files,  \* paths at which there is something
          Missing,             \* other paths that are typed
          MaxEdits             \* bound: changes by the user

Root == <<>>
Paths == Directories \cup Files \cup Missing
NoPath == <<"..">>

SourceDirectoryConstants ==
  /\ Root \in Directories /\ NoPath \notin Paths /\ MaxEdits \in Nat
  /\ \A p \in Paths \ {Root} : Front(p) \in Paths
  /\ \A p \in (Directories \cup Files) \ {Root} : Front(p) \in Directories

VARIABLES is10,          \* the cluster has Beacon 1.0, which makes no snapshots
          path,          \* the value of the field
          debouncing,    \* it changed less than half a second ago
          hdfsRootPath,  \* what the step tells the browser to show
          shown,         \* currentDirectory$ of the browser
          listed,        \* store: the paths whose files are known
          listCall,      \* the call that is not forgotten, and who asked
          inProgress,    \* progress of FILES_REQUEST, the browser's
          lastResult,    \* the path whose listing completed it last
          ancestor,      \* the path that the check of ancestors waits for
          verdict,       \* the errors of the field
          apart,         \* history: the browser was left at another directory than the
                         \* field's, and has not been told of one since
          edits

vars == <<is10, path, debouncing, hdfsRootPath, shown, listed, listCall, inProgress,
          lastResult, ancestor, verdict, apart, edits>>

Exists(p) == p \in Directories \cup Files
NoListing == [path |-> NoPath, by |-> "none"]
ListFiles(p, by) == [path |-> p, by |-> by]

Init ==
  /\ is10 \in BOOLEAN
  /\ path = Root /\ debouncing = FALSE /\ hdfsRootPath = Root /\ shown = Root
  /\ listed = {Root} /\ listCall = NoListing
  /\ inProgress = FALSE /\ lastResult = Root
  /\ ancestor = NoPath /\ verdict = "none"
  /\ apart = FALSE /\ edits = 0

-----------------------------------------------------------------------------
(* The checks. *)

\* Files of a directory, or the file itself.
FilesAt(p) == IF p \in Files THEN {p}
              ELSE {q \in Directories \cup Files : q # Root /\ Front(q) = p}

\* validateDirectories, before the ancestors: a listing with one file of the name.
Verdict(result, p) ==
  IF ~Exists(result) THEN "notExist"
  ELSE IF p # Root /\ \E f \in Files : FilesAt(result) = {f} /\ Last(f) = Last(p)
       THEN "isFile"
       ELSE "none"

\* checkSnapshottableAncestor looks at every second ancestor, from the nearest one, and
\* ends at one whose listing is not known or has not the next name of the path.
Ancestors(p) ==
  {SubSeq(p, 1, n) : n \in {k \in 0..(Len(p) - 1) : k = 0 \/ (Len(p) - k) % 2 = 0}}
Stops(p, known) ==
  {a \in Ancestors(p) : a \notin known \/ ~Exists(SubSeq(p, 1, Len(a) + 1))}

\* The ancestor that has to be listed before the check can go on.
Unlisted(p, known) ==
  IF \E a \in Stops(p, known) \ known : \A b \in Stops(p, known) : Len(b) <= Len(a)
  THEN CHOOSE a \in Stops(p, known) \ known : \A b \in Stops(p, known) : Len(b) <= Len(a)
  ELSE NoPath

\* checkFileEncryption lists the parent, save the root's, which is known.
Encryption(p, older) ==
  IF p = Root \/ Front(p) = Root THEN older ELSE ListFiles(Front(p), "encryption")

\* The ancestors are checked from p; before is the call if they need none.
CheckAncestors(p, known, before) ==
  LET q == Unlisted(p, known)
  IN /\ ancestor' = q
     /\ verdict' = IF q = NoPath THEN "none" ELSE "pending"
     /\ listCall' = IF q = NoPath THEN before ELSE ListFiles(q, "ancestor")

Unforgotten(result, root, known, before) ==
  LET v == Verdict(result, root)
  IN IF v # "none" \/ is10
     THEN verdict' = v /\ listCall' = before /\ UNCHANGED ancestor
     ELSE CheckAncestors(path, known, before)
\* A new emission of combineLatest: an older check of ancestors is forgotten.
Validate(result, root, known, before) ==
  LET v == Verdict(result, root)
  IN IF v # "none" \/ is10
     THEN verdict' = v /\ ancestor' = NoPath /\ listCall' = before
     ELSE CheckAncestors(path, known, before)

-----------------------------------------------------------------------------
(* The field and the browser. *)

Edited(p) ==
  /\ edits < MaxEdits /\ edits' = edits + 1
  /\ path' = p /\ p # path
  /\ verdict' = "pending" /\ debouncing' = TRUE

Type(p) ==
  /\ Edited(p)
  /\ UNCHANGED <<is10, hdfsRootPath, shown, listed, listCall, inProgress, lastResult, ancestor, apart>>

\* Rows that can be opened, and breadcrumbs, which the dropdown has too: those above
\* the directory, and the root is above itself.
Rows == IF shown \in listed THEN FilesAt(shown) \cap Directories ELSE {}
Breadcrumbs == {SubSeq(shown, 1, n) : n \in {0} \cup 0..(Len(shown) - 1)}

\* switchDirectory: the browser lists, and tells the field.
SwitchDirectory(p) ==
  /\ p \in Rows \cup Breadcrumbs
  /\ shown' = p
  /\ IF p = shown THEN UNCHANGED <<listCall, inProgress>>
     ELSE listCall' = ListFiles(p, "browser") /\ inProgress' = TRUE
  /\ IF p = path THEN UNCHANGED <<path, verdict, debouncing, edits>> ELSE Edited(p)
  /\ apart' = (apart /\ p = shown)
  /\ UNCHANGED <<is10, hdfsRootPath, listed, lastResult, ancestor>>

\* Half a second after the last change.  The encryption is looked up first, then the
\* browser is told of the path, which may replace that call, and the validation takes
\* the progress there was before.
Debounced ==
  /\ debouncing /\ debouncing' = FALSE
  /\ hdfsRootPath' = path
  /\ LET navigates == hdfsRootPath # path /\ shown # path
         asked == IF inProgress THEN listCall ELSE Encryption(path, listCall)
     IN /\ shown' = IF navigates THEN path ELSE shown
        /\ inProgress' = (inProgress \/ navigates)
        /\ apart' = (~navigates /\ (apart \/ shown # path))
        /\ Validate(lastResult, path, listed,
                    IF navigates THEN ListFiles(path, "browser") ELSE asked)
  /\ UNCHANGED <<is10, path, listed, lastResult, edits>>

\* The step is shown again: patchValue runs the field's own validators, and the value
\* has not changed.
UpdateOnActivation ==
  /\ edits < MaxEdits /\ edits' = edits + 1
  /\ verdict' = "reset"
  /\ UNCHANGED <<is10, path, debouncing, hdfsRootPath, shown, listed, listCall, inProgress,
                 lastResult, ancestor, apart>>

OfBrowserOnly ==
  /\ listCall # NoListing
  /\ listed' = listed \cup (IF Exists(listCall.path) THEN {listCall.path} ELSE {})
  /\ inProgress' = (inProgress /\ listCall.by # "browser")
  /\ lastResult' = IF listCall.by = "browser" THEN listCall.path ELSE lastResult
  /\ IF listCall.by = "browser"
     THEN Validate(listCall.path, hdfsRootPath, listed', NoListing)
     ELSE listCall' = NoListing /\ UNCHANGED <<ancestor, verdict>>
  /\ UNCHANGED <<is10, path, debouncing, hdfsRootPath, shown, apart, edits>>

\* listFilesSuccess or listFilesFail, with everyone who follows the progress of the
\* type: the browser's first, else the check of ancestors.
ListFilesDone ==
  /\ listCall # NoListing
  /\ LET p == listCall.path
         known == IF Exists(p) THEN listed \cup {p} ELSE listed
     IN /\ listed' = known
        /\ inProgress' = FALSE
        /\ IF inProgress
           THEN /\ lastResult' = p
                /\ Validate(p, hdfsRootPath, known, Encryption(hdfsRootPath, NoListing))
           ELSE /\ UNCHANGED lastResult
                /\ IF ancestor = NoPath
                   THEN listCall' = NoListing /\ UNCHANGED <<ancestor, verdict>>
                   ELSE CheckAncestors(IF Exists(p) THEN ancestor ELSE Root, known, NoListing)
  /\ UNCHANGED <<is10, path, debouncing, hdfsRootPath, shown, apart, edits>>

Next ==
  \/ \E p \in Paths : Type(p) \/ SwitchDirectory(p)
  \/ Debounced \/ UpdateOnActivation \/ ListFilesDone

-----------------------------------------------------------------------------

TypeOK ==
  /\ {is10, debouncing, inProgress, apart} \subseteq BOOLEAN
  /\ {path, hdfsRootPath, shown, lastResult} \subseteq Paths
  /\ listed \subseteq Directories \cup Files /\ ancestor \in Paths \cup {NoPath}
  /\ listCall.path \in Paths \cup {NoPath}
  /\ listCall.by \in {"none", "browser", "encryption", "ancestor"}
  /\ verdict \in {"none", "pending", "notExist", "isFile", "reset"}
  /\ edits \in 0..MaxEdits

\* The browser's spinner, and a field that waits for its ancestors, have a call that
\* will end them, though each call makes the effect forget the one before.
SpinsForListing == inProgress \/ ancestor # NoPath => listCall # NoListing

\* When everything has come, the field says what there is at its path: the verdicts
\* taken from older listings do not last.  This is so for Beacon 1.0, and where the
\* ancestors are known; the listing of an unknown ancestor may take the place of the
\* directory's own, and stay with a browser that was left apart (README).
DirectoryFits ==
  listCall = NoListing /\ ~debouncing /\ verdict # "reset" /\ ~apart
    /\ (is10 \/ Len(path) <= 2)
  => verdict = (IF path \in Directories THEN "none"
                ELSE IF path \in Files THEN "isFile" ELSE "notExist")
=============================================================================

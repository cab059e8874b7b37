------------------------------ MODULE PolicyRows ------------------------------
(***************************************************************************)
(* The rows of the page of policies: the filters above the table           *)
(* (table-filter.component.ts), the buttons of services beside them        *)
(* (policy-service-filter.component.ts), what the page makes of both       *)
(* (policies.component.ts) and the pages of the table                      *)
(* (table.component.ts, table-footer.component.ts).  The filters, the      *)
(* buttons and the table are there while there are policies; the page      *)
(* keeps what they told it.                                                *)
(*                                                                         *)
(* A filter may take several values of a property (here the name) or one   *)
(* (here the target).                                                      *)
(***************************************************************************)
EXTENDS Naturals, FiniteSets

CONSTANTS Ids,          \* names of policies
          TargetOf,     \* their targets
          TypeOf,       \* HDFS or HIVE
          Limits,       \* rows per page: 10, 25 and 50
          FirstLimit,   \* 10
          MaxFilterings \* bound: changes by the user, and by links

PolicyRowsConstants ==
  /\ DOMAIN TargetOf = Ids /\ DOMAIN TypeOf = Ids
  /\ Limits \subseteq Nat \ {0} /\ FirstLimit \in Limits /\ MaxFilterings \in Nat

None == ""
Targets == {TargetOf[p] : p \in Ids}
Services == {TypeOf[p] : p \in Ids}

VARIABLES policies,        \* those in the store
          initialNames,    \* initialFilters: what a link asked for
          applied,         \* appliedFilters of the component, which shows them as tags
          shared,          \* its names are the array of initialFilters
          filters,         \* filters$ of the page
          options,         \* values the filters offer
          activeService,   \* the button that is pressed
          filterByService, \* filterByService$ of the page
          limit, offset,   \* of the table
          linked,          \* the policy of the last link, until the user changes filters
          filterings

vars == <<policies, initialNames, applied, shared, filters, options, activeService,
          filterByService, limit, offset, linked, filterings>>

NoFilters == [names |-> {}, target |-> None]

FilterCollection(ps, f) ==
  {p \in ps : (f.names = {} \/ p \in f.names) /\ f.target \in {None, TargetOf[p]}}
RowsOf(ps, f, service) == {p \in FilterCollection(ps, f) : service \in {None, TypeOf[p]}}
Rows == RowsOf(policies, filters, filterByService)

NoOptions == [names |-> {}, targets |-> {}]
\* prepareTypeaheadOptions: values are added and never removed.
WithOptionsOf(o, rows) ==
  [names |-> o.names \cup rows, targets |-> o.targets \cup {TargetOf[p] : p \in rows}]

Init ==
  /\ policies = {}
  /\ \E p \in Ids \cup {None} :
       linked = p /\ initialNames = IF p = None THEN {} ELSE {p}
  /\ applied = NoFilters /\ shared = FALSE /\ filters = NoFilters /\ options = NoOptions
  /\ activeService = None /\ filterByService = None
  /\ limit = FirstLimit /\ offset = 0 /\ filterings = 0

-----------------------------------------------------------------------------

Silent(ps, f, service, o) ==
  /\ applied' = f /\ UNCHANGED filters
  /\ filterByService' = service
  /\ options' = WithOptionsOf(o, RowsOf(ps, filters, service))

\* What the page has told the filters they tell the page at once, whose rows they get.
Filtered(ps, f, service, o) ==
  /\ applied' = f /\ filters' = f
  /\ filterByService' = service
  /\ options' = WithOptionsOf(o, RowsOf(ps, f, service))

FiltersKept(ps, names, o) ==
  /\ Filtered(ps, [applied EXCEPT !.names = names], filterByService, o)
  /\ shared' = (names # {})
\* A filter with no initial value has an array of its own.
ApplyInitialFilters(ps, names, o) ==
  /\ Filtered(ps, [NoFilters EXCEPT !.names = names], filterByService, o)
  /\ shared' = (names # {})

\* A list of policies: the first ones bring filters, buttons and table back as they
\* are in the beginning, but for the values that are offered, which the page keeps.
LoadPoliciesSuccess(ps) ==
  /\ ps # policies /\ policies' = ps
  /\ IF policies = {}
     THEN /\ ApplyInitialFilters(ps, initialNames,
               WithOptionsOf(options, RowsOf(ps, filters, filterByService)))
          /\ activeService' = None /\ limit' = FirstLimit /\ offset' = 0
     ELSE /\ options' = IF ps = {} THEN options
                        ELSE WithOptionsOf(options, RowsOf(ps, filters, filterByService))
          /\ UNCHANGED <<applied, shared, filters, filterByService, activeService, limit, offset>>
  /\ UNCHANGED <<initialNames, linked, filterings>>

Change == filterings < MaxFilterings /\ filterings' = filterings + 1

\* A link on the page itself, as of a notification.
QueryParams(p) ==
  /\ Change
  /\ initialNames' = {p} /\ linked' = p
  /\ IF policies = {} THEN UNCHANGED <<applied, shared, filters, filterByService, options>>
     ELSE ApplyInitialFilters(policies, {p}, options)
  /\ UNCHANGED <<policies, activeService, limit, offset>>

ByUser == policies # {} /\ Change /\ linked' = None

\* addFilter.  A name is pushed to the array, which may be that of initialFilters.
AddName(p) ==
  /\ ByUser /\ p \in options.names
  /\ Filtered(policies, [applied EXCEPT !.names = @ \cup {p}], filterByService, options)
  /\ initialNames' = IF shared THEN initialNames \cup {p} ELSE initialNames
  /\ UNCHANGED <<policies, shared, activeService, limit, offset>>

AddTarget(t) ==
  /\ ByUser /\ t \in options.targets
  /\ Filtered(policies, [applied EXCEPT !.target = t], filterByService, options)
  /\ UNCHANGED <<policies, initialNames, shared, activeService, limit, offset>>

\* removeFilter: the names that are left are a new array.
RemoveName(p) ==
  /\ ByUser /\ p \in applied.names
  /\ Filtered(policies, [applied EXCEPT !.names = @ \ {p}], filterByService, options)
  /\ shared' = FALSE
  /\ UNCHANGED <<policies, initialNames, activeService, limit, offset>>

RemoveTarget ==
  /\ ByUser /\ applied.target # None
  /\ Filtered(policies, [applied EXCEPT !.target = None], filterByService, options)
  /\ UNCHANGED <<policies, initialNames, shared, activeService, limit, offset>>

\* A button that is pressed is released by a click.
FilterPoliciesByService(s) ==
  /\ ByUser
  /\ activeService' = IF s = activeService THEN None ELSE s
  /\ Filtered(policies, applied, activeService', options)
  /\ UNCHANGED <<policies, initialNames, shared, limit, offset>>

-----------------------------------------------------------------------------
(* The pages of the table.  ngx-datatable keeps the page it was told, and  *)
(* shows the last one when there are not as many.                          *)

FullPages(count, size) == count \div size
PagesCount(count, size) == IF count % size = 0 THEN count \div size ELSE (count \div size) + 1
LastPage(count, size) == IF count = 0 THEN 0 ELSE (count - 1) \div size
Offset == LET last == LastPage(Cardinality(Rows), limit)
          IN IF offset < last THEN offset ELSE last
CurPage == Offset + 1

NextDisabled == CurPage >= PagesCount(Cardinality(Rows), limit)
PrevDisabled == CurPage = 1

ChangePage(page) ==
  /\ policies # {} /\ offset' = page - 1
  /\ UNCHANGED <<policies, initialNames, applied, shared, filters, options, activeService,
                 filterByService, limit, linked, filterings>>

HandleGoToNext == ~NextDisabled /\ ChangePage(CurPage + 1)
HandleGoToPrev == ~PrevDisabled /\ ChangePage(CurPage - 1)

HandleChangeLimit(size) ==
  /\ policies # {} /\ Change /\ limit' = size /\ offset' = 0
  /\ UNCHANGED <<policies, initialNames, applied, shared, filters, options, activeService,
                 filterByService, linked>>

Next ==
  \/ \E ps \in SUBSET Ids : LoadPoliciesSuccess(ps)
  \/ \E p \in Ids : QueryParams(p) \/ AddName(p) \/ RemoveName(p)
  \/ \E t \in Targets : AddTarget(t)
  \/ \E s \in Services : FilterPoliciesByService(s)
  \/ RemoveTarget \/ HandleGoToNext \/ HandleGoToPrev
  \/ \E size \in Limits : HandleChangeLimit(size)

-----------------------------------------------------------------------------

TypeOK ==
  /\ policies \subseteq Ids /\ initialNames \subseteq Ids /\ linked \in Ids \cup {None}
  /\ {applied, filters} \subseteq [names : SUBSET Ids, target : Targets \cup {None}]
  /\ options.names \subseteq Ids /\ options.targets \subseteq Targets
  /\ {activeService, filterByService} \subseteq Services \cup {None}
  /\ limit \in Limits /\ offset \in Nat /\ shared \in BOOLEAN

\* The tags above the table are what its rows are chosen by, also when the filters were
\* gone with the policies, and everything in the rows can be chosen as a filter:
\* table-filter.component.ts and policies.component.ts each keep filters.
TagsTell ==
  policies # {} =>
    /\ filters = applied
    /\ Rows \subseteq options.names /\ {TargetOf[p] : p \in Rows} \subseteq options.targets

\* A link to a policy shows it, unless a service was chosen.
LinkShows == linked \in policies /\ filterByService = None => linked \in Rows

\* Rows are shown while there are any, and the buttons of the footer lead to all of
\* them and to no page without: table-footer.component.ts counts pages by itself.
PagesReach ==
  LET count == Cardinality(Rows)
  IN /\ count > 0 => Offset * limit < count
     /\ NextDisabled <=> CurPage * limit >= count
     /\ PrevDisabled <=> Offset = 0
=============================================================================

---------------------------- MODULE GroupPlanner ----------------------------
(***************************************************************************)
(* The GROUP query of Server::groupAPI, over the account store, the group  *)
(* cache and the read indexes of Accounts.  GroupOptimizer::aggregateIntoMap*)
(* tries, in order, the filter-as-extra-key rewrite against the cache      *)
(* (tryFilterBreakdownIsCachedOptimization), the cached histogram for a    *)
(* query without filters (tryNoFilterCachedOptimization), the selectivity- *)
(* driven lookup (tryLookupOptimization), and the naive scan.  The naive   *)
(* scan under the filters' meaning is the reference (spec property 4) the  *)
(* plans are compared with; groupAPI then sorts and cuts the map.          *)
(*                                                                         *)
(* A query is [keys : sequence of distinct regular fields (GroupList::     *)
(* parse), filters : sequence of [name, pred, value]].  The filter         *)
(* sequence is the iteration order of the unordered RequestParams: the MC  *)
(* lists the orders that matter.  parseGroupFilter gives every filter its  *)
(* fixed predicate (eq, year, contains).                                   *)
(***************************************************************************)
EXTENDS Accounts

CONSTANTS
    Queries,        \* GROUP queries: [keys, filters]
    FilterQueries,  \* filterAPI queries: [filters]
    FilterLimit,    \* the limit of the filter queries
    GroupLimits,    \* limit params of the GROUP queries
    Collation       \* Collation[f]: the values of key f in the byte order of their strings

\* InterestIdMap::getId: the id of a known interest, -1 for any other.
InvalidInterestId == -1
InterestIdOf(v) == IF v \in interestIds THEN v ELSE InvalidInterestId

\* InterestsFilter::parsePredicate: the value is the sequence splitString
\* gives; values is the set of its ids, valuesVec their list sorted by
\* SORT_REVERSE (repeated and unknown strings kept).
InterestValues(flt) == {InterestIdOf(flt.value[k]) : k \in DOMAIN flt.value}
ValuesVec(flt) == SortSeq([k \in DOMAIN flt.value |-> InterestIdOf(flt.value[k])], IntGt)

\* The CONTAINS merge of InterestsFilter::matches and of LikesFilter::matches:
\* both sequences are assumed to be sorted descending.
RECURSIVE ContainsMerge(_, _)
ContainsMerge(vs, ds) ==
    IF vs = <<>> THEN TRUE
    ELSE IF ds = <<>> THEN FALSE
    ELSE IF Head(vs) = Head(ds) THEN ContainsMerge(Tail(vs), Tail(ds))
    ELSE IF Head(vs) > Head(ds) THEN FALSE
    ELSE ContainsMerge(vs, Tail(ds))

\* The ANY merge of InterestsFilter::matches.
RECURSIVE AnyMerge(_, _)
AnyMerge(as, bs) ==
    IF as = <<>> \/ bs = <<>> THEN FALSE
    ELSE IF Head(as) = Head(bs) THEN TRUE
    ELSE IF Head(as) > Head(bs) THEN AnyMerge(Tail(as), bs)
    ELSE AnyMerge(as, Tail(bs))

\* checkBooleanValue: "1" selects the accounts where the test holds.
CheckBooleanValue(isTrue, v) == IF v = "1" THEN isTrue ELSE ~isTrue

\* SexFilter::matches (predicate eq).
SexFilter(a, flt) == a.sex = flt.value

\* StatusFilter::matches, predicates eq and neq.
StatusFilter(a, flt) ==
    IF flt.pred = "eq" THEN a.status = StatusOf[flt.value] ELSE a.status # StatusOf[flt.value]

\* CountryFilter::matches: eq on the countryId, null on the empty string.
CountryFilter(a, flt) ==
    IF flt.pred = "eq" THEN a.country = flt.value ELSE CheckBooleanValue(a.country = "", flt.value)

\* getStringValue compared as std::string: the position of the value's
\* string (convertSexToString, countryIdMap / interestIdMap.getValue) in
\* the byte order Collation lists for the key (or the
\* e-mails).
StringRank(f, v) == SelectInSeq(Collation[f], LAMBDA x : x = v)

\* CityFilter::matches: eq and any on the cityId (a value the dictionary
\* has not seen gets id -1, which no account has), null on the string.
CityFilter(a, flt) ==
    CASE flt.pred = "eq" -> a.city = flt.value
      [] flt.pred = "any" -> a.city \in flt.value
      [] flt.pred = "null" -> CheckBooleanValue(a.city = "", flt.value)

\* The byte order of std::string on e-mails, as ranks in Collation.email.
EmailLess(a, b) == StringRank("email", a) < StringRank("email", b)

\* EmailFilter::matches: lt and gt on the e-mail, domain on emailDomain.
EmailFilter(a, flt) ==
    CASE flt.pred = "lt" -> EmailLess(a.email, flt.value)
      [] flt.pred = "gt" -> EmailLess(flt.value, a.email)
      [] flt.pred = "domain" -> a.emailDomain = flt.value

\* BirthFilter::matches: lt and gt on the timestamp, year on birthYear.
BirthFilter(a, flt) ==
    CASE flt.pred = "lt" -> a.birth < flt.value
      [] flt.pred = "gt" -> a.birth > flt.value
      [] flt.pred = "year" -> a.birthYear = flt.value

\* JoinedFilter::matches, predicate year.
JoinedFilter(a, flt) == a.joined = flt.value

\* PremiumFilter::matches, predicate now.
PremiumFilter(a, flt) == CheckBooleanValue(a.premium, flt.value)

\* InterestsFilter::matches with its one-value shortcut; the merges rely
\* on data.interests being sorted descending.
InterestsFilter(a, flt) ==
    LET vs == ValuesVec(flt) IN
    CASE Len(vs) = 1 -> \E n \in DOMAIN a.interests : a.interests[n] = vs[1]
      [] flt.pred = "contains" -> ContainsMerge(vs, a.interests)
      [] flt.pred = "any" -> AnyMerge(vs, a.interests)

\* LikesFilter::values: the ids of the value, sorted descending and not
\* deduplicated.
LikesValues(flt) == SortSeq(flt.value, IntGt)

\* LikesFilter::matches: every value consumes one forward edge of data.likes
\* (sorted descending by sortAccountData).
LikesFilter(i, flt) == ContainsMerge(LikesValues(flt), [n \in DOMAIN likes[i] |-> likes[i][n][1]])

\* Filter::matches of the class parseSelector / parseGroupFilter picked
\* for the field, on the account in slot i.
FilterMatches(i, flt) ==
    CASE flt.name = "sex" -> SexFilter(acc[i], flt)
      [] flt.name = "status" -> StatusFilter(acc[i], flt)
      [] flt.name = "country" -> CountryFilter(acc[i], flt)
      [] flt.name = "joined" -> JoinedFilter(acc[i], flt)
      [] flt.name = "birth" -> BirthFilter(acc[i], flt)
      [] flt.name = "email" -> EmailFilter(acc[i], flt)
      [] flt.name = "city" -> CityFilter(acc[i], flt)
      [] flt.name = "premium" -> PremiumFilter(acc[i], flt)
      [] flt.name = "interests" -> InterestsFilter(acc[i], flt)
      [] flt.name = "likes" -> LikesFilter(i, flt)

\* What the filter means (spec section 4.3): every or some interest, every
\* listed id among the account's likes, or the predicate on the field.
FilterHolds(i, flt) ==
    LET a == acc[i] IN
    CASE flt.name = "interests" /\ flt.pred = "contains" -> ToSet(flt.value) \subseteq ToSet(a.interests)
      [] flt.name = "interests" -> ToSet(flt.value) \cap ToSet(a.interests) # {}
      [] flt.name = "likes" -> ToSet(flt.value) \subseteq {e[1] : e \in ToSet(likes[i])}
      [] flt.name = "status" /\ flt.pred = "neq" -> a.status # StatusOf[flt.value]
      [] flt.name = "status" -> a.status = StatusOf[flt.value]
      [] flt.name = "premium" -> a.premium = (flt.value = "1")
      [] flt.name = "birth" /\ flt.pred = "lt" -> a.birth < flt.value
      [] flt.name = "birth" /\ flt.pred = "gt" -> a.birth > flt.value
      [] flt.name = "birth" -> TimestampYear(a.birth) = flt.value
      [] flt.name = "email" /\ flt.pred = "lt" -> EmailLess(a.email, flt.value)
      [] flt.name = "email" /\ flt.pred = "gt" -> EmailLess(flt.value, a.email)
      [] flt.name = "email" -> EmailDomain[a.email] = flt.value
      [] flt.pred = "any" -> a[flt.name] \in flt.value
      [] flt.pred = "null" -> (a[flt.name] = "") = (flt.value = "1")
      [] OTHER -> a[flt.name] = flt.value

\* The naive plan: the histogram over the keys of the live accounts that
\* satisfy every filter.
Reference(q) ==
    Histogram(acc, {i \in LiveIds : \A n \in DOMAIN q.filters : FilterHolds(i, q.filters[n])},
              ToSet(q.keys))

\* groupAPI emits the entries with a non-zero count, each projected onto
\* the client's keys by GroupSortingItem (extra breakdowns dropped).
Rows(m, K) == {<<Restrict(t, K), m[t]>> : t \in {u \in DOMAIN m : m[u] # 0}}

FilterNames(q) == {q.filters[n].name : n \in DOMAIN q.filters}

\* GroupList::getCombinedCacheKey: the names of keys and filters.
CombinedKey(q) == ToSet(q.keys) \cup FilterNames(q)

-----------------------------------------------------------------------------
(* tryFilterBreakdownIsCachedOptimization *)

\* isCachedBreakdown for the modelled fields; the cache entry must exist
\* (IndexStorage::getCachedGroupResult: none for more than 3 names).
UsesBreakdownRewrite(q) ==
    /\ Len(q.filters) <= 2
    /\ FilterNames(q) \subseteq RegularFields \cup YearFields
    /\ CombinedKey(q) \in CacheKeySets

\* Filter::getValueId: InterestsFilter asserts a single value.
ValueIdDefined(flt) == flt.name # "interests" \/ Cardinality(InterestValues(flt)) = 1
ValueId(flt) ==
    IF flt.name = "interests" THEN CHOOSE v \in InterestValues(flt) : TRUE ELSE flt.value

\* The scan over the cached entries tests the filters in order and stops
\* at the first mismatch: getValueId of filter n runs for an entry that
\* matched every filter before n.
BreakdownAborts(q) ==
    LET m == cache[CombinedKey(q)] IN
    \E t \in DOMAIN m, n \in DOMAIN q.filters :
        /\ ~ValueIdDefined(q.filters[n])
        /\ \A k \in 1..(n - 1) : t[q.filters[k].name] = ValueId(q.filters[k])

\* Mutant: the cached entries are returned without testing the filters.
BreakdownRewriteUnfiltered(q) == cache[CombinedKey(q)]

BreakdownRewrite(q) ==
    LET m == cache[CombinedKey(q)]
        hit == {t \in DOMAIN m : \A n \in DOMAIN q.filters :
                                    t[q.filters[n].name] = ValueId(q.filters[n])}
    IN [t \in hit |-> m[t]]

-----------------------------------------------------------------------------
(* tryLookupOptimization *)

\* findRemainingItems over the indexes of the last rebuild (usersAtSex,
\* usersAtStatus, usersAtCountry, usersAtJoinedYear, usersAtBirthYear,
\* usersAtEmailDomain, usersAtCity, usersAtInterestId).
IndexList(f, v) ==
    {i \in DOMAIN indexed : IF f = "interests" THEN v \in indexed[i].interests
                                               ELSE GroupValueOf(indexed[i], f) = v}

\* LikesFilter::createSingleValueIterator: the backward edges of an
\* existing account, read from accountsArray as it is now.
LikersOf(v) == IF Exists(v) THEN {e[1] : e \in ToSet(backward[v])} ELSE {}
LikeEdgeCount(v) == IF Exists(v) THEN Len(backward[v]) ELSE 0

\* LikesFilter::findRemainingItems: one LikeEdgeIterator, or the
\* IntersectionIdIterator of two or three of them.
LikesLookupList(flt) == {i \in Ids : \A k \in DOMAIN flt.value : i \in LikersOf(flt.value[k])}

\* Filter::supportsLookup of each filter class.
SupportsLookup(flt) ==
    CASE flt.name = "status" -> flt.pred = "eq"
      [] flt.name = "premium" -> FALSE
      [] flt.name = "birth" -> flt.pred = "year"
      [] flt.name = "email" -> flt.pred = "domain"
      [] flt.name = "city" -> flt.pred = "eq" \/ (flt.pred = "null" /\ flt.value = "1")
      [] flt.name = "country" -> flt.pred = "eq" \/ flt.value = "1"
      [] flt.name = "interests" -> flt.pred = "contains" \/ Cardinality(InterestValues(flt)) = 1
      [] flt.name = "likes" -> Len(flt.value) <= 3
      [] OTHER -> TRUE

\* findRemainingItems: for CONTAINS the list of the value with the fewest
\* users (among equal sizes the unordered_set decides), for a one-value
\* ANY that value's list or the empty iterator for -1; for likes the
\* IntersectionIdIterator of the values' LikeEdgeIterators, which yields
\* each liker of every value once (module Iterators).
LookupLists(flt) ==
    CASE flt.name = "interests" ->
            LET ids == InterestValues(flt) IN
            {IndexList("interests", v) :
                v \in {w \in ids : \A x \in ids :
                           Cardinality(IndexList("interests", w)) <= Cardinality(IndexList("interests", x))}}
      [] flt.name = "likes" -> {LikesLookupList(flt)}
      [] flt.name = "status" -> {IndexList("status", StatusOf[flt.value])}
      [] flt.name = "country" /\ flt.pred = "null" -> {IndexList("country", "")}
      [] flt.name = "email" -> {IndexList("emailDomain", flt.value)}
      [] flt.name = "city" /\ flt.pred = "null" -> {IndexList("city", "")}
      [] OTHER -> {IndexList(flt.name, flt.value)}

\* estimateOutputSize: the size() of the iterator; an intersection has the
\* smaller size of its two sides, a LikeEdgeIterator its number of edges.
EstimateOutputSize(flt) ==
    IF flt.name = "likes" THEN Min({LikeEdgeCount(flt.value[k]) : k \in DOMAIN flt.value})
    ELSE Cardinality(CHOOSE l \in LookupLists(flt) : TRUE)

LookupCandidates(q) == {n \in DOMAIN q.filters : SupportsLookup(q.filters[n])}

HasLookup(q) == LookupCandidates(q) # {}

\* rewriteFilters: the first lookup-capable filter of minimal estimated size.
LookupIndex(q) ==
    CHOOSE n \in LookupCandidates(q) :
        /\ \A k \in LookupCandidates(q) : EstimateOutputSize(q.filters[n]) <= EstimateOutputSize(q.filters[k])
        /\ \A k \in LookupCandidates(q) \cap 1..(n - 1) :
               EstimateOutputSize(q.filters[k]) > EstimateOutputSize(q.filters[n])

\* Mutant: OptimizedFilter::matches not applied to the remaining filters.
LookupAdmittedNoRecheck(q) ==
    {{i \in ids : Live(i)} : ids \in LookupLists(q.filters[LookupIndex(q)])}

\* The ids of the lookup list that are live now and match the remaining
\* filters (OptimizedFilter::matches); the lookup filter is not re-tested.
LookupAdmitted(q) ==
    LET n == LookupIndex(q) IN
    {{i \in ids : Live(i) /\ \A k \in DOMAIN q.filters \ {n} : FilterMatches(i, q.filters[k])} :
        ids \in LookupLists(q.filters[n])}

\* GroupList::updateMap adds every admitted account.
LookupPlans(q) == {Histogram(acc, ids, ToSet(q.keys)) : ids \in LookupAdmitted(q)}

-----------------------------------------------------------------------------
(* GroupOptimizer::aggregateIntoMap *)

\* The fallback of aggregateIntoMap: every existing account GroupList::matches.
NaivePlan(q) ==
    Histogram(acc, {i \in LiveIds : \A n \in DOMAIN q.filters : FilterMatches(i, q.filters[n])},
              ToSet(q.keys))

UsesCache(q) == UsesBreakdownRewrite(q) \/ q.filters = <<>>

\* The maps the plan may produce (one unless the lookup list is a tie).
Plans(q) ==
    IF UsesBreakdownRewrite(q) THEN {BreakdownRewrite(q)}
    ELSE IF q.filters = <<>> THEN {cache[ToSet(q.keys)]}
    ELSE IF HasLookup(q) THEN LookupPlans(q)
    ELSE {NaivePlan(q)}

Aborts(q) == UsesBreakdownRewrite(q) /\ BreakdownAborts(q)

-----------------------------------------------------------------------------
(* The filter path: Server::filterAPI.  A filter query is a sequence of    *)
(* [filters] of filters on sex, status, country, birth, premium,         *)
(* interests and likes (parseSelector has no joined field).              *)

\* The first FilterLimit ids of a set, descending: the order of every index
\* list and of the fallback scan, cut where the loop breaks.
FirstIds(S) ==
    LET s == SetToSortSeq(S, >) IN
    SubSeq(s, 1, IF Len(s) < FilterLimit THEN Len(s) ELSE FilterLimit)

\* Mutant: the lookup filter is never re-tested (checkLookup dropped).
TryOptimizedFilterQueryNoRecheck(q) ==
    LET n == LookupIndex(q) IN
    {FirstIds({i \in ids : Live(i) /\ \A k \in DOMAIN q.filters \ {n} : FilterMatches(i, q.filters[k])}) :
        ids \in LookupLists(q.filters[n])}

\* tryOptimizedFilterQuery: walk the lookup list, skip empty slots,
\* re-test the lookup filter when it is interests (checkLookup), keep the
\* ids the other filters match, break at the limit.
TryOptimizedFilterQuery(q) ==
    LET n == LookupIndex(q)
        recheck(i) == q.filters[n].name = "interests" => FilterMatches(i, q.filters[n])
    IN {FirstIds({i \in ids : Live(i) /\ recheck(i)
                                /\ \A k \in DOMAIN q.filters \ {n} : FilterMatches(i, q.filters[k])}) :
            ids \in LookupLists(q.filters[n])}

\* filterAPI: without a lookup-capable filter, the scan from MAX_ACCOUNT_ID
\* down over FilterList::matches.
FilterAPI(q) ==
    IF HasLookup(q) THEN TryOptimizedFilterQuery(q)
    ELSE {FirstIds({i \in LiveIds : \A n \in DOMAIN q.filters : FilterMatches(i, q.filters[n])})}

\* No write since the last rebuildIndexes: the read indexes were built from
\* the accounts as they are now, and sortAccountData has sorted their
\* interests and both edge lists.
Fresh ==
    /\ indexed = IndexSnapshot(acc)
    /\ acc = SortedInterests(acc)
    /\ likes = SortedEdges(acc, likes)
    /\ backward = SortedEdges(acc, backward)

-----------------------------------------------------------------------------
(* Server::groupAPI: sorting and emission *)


\* GroupSortingItem: the count and the strings of the client's keys, in
\* the order of groupFieldTypes (the client's, not the canonical one).
SortingItem(t, c, keys) ==
    [row |-> Restrict(t, ToSet(keys)), count |-> c,
     sortKey |-> <<c>> \o [k \in DOMAIN keys |-> StringRank(keys[k], t[keys[k]])]]

\* GroupSortingItem::operator<, std::tie(count, fieldValues): keys of
\* equal length compared lexicographically.
SeqLess(a, b) == \E k \in DOMAIN a : a[k] < b[k] /\ \A j \in 1..(k - 1) : a[j] = b[j]

\* groupAPI: one item per entry of the map, zero counts included, sorted
\* by std::sort ascending, or over the reverse iterators for order=-1.
SortedItems(m, keys, increasing) ==
    SetToSortSeq({SortingItem(t, m[t], keys) : t \in DOMAIN m},
                 LAMBDA x, y : IF increasing THEN SeqLess(x.sortKey, y.sortKey)
                                             ELSE SeqLess(y.sortKey, x.sortKey))

\* Mutant: a skipped zero-count item still uses up the limit.
RECURSIVE EmitGroupsCountingZeros(_, _)
EmitGroupsCountingZeros(items, limit) ==
    CASE items = <<>> \/ limit = 0 -> <<>>
      [] Head(items).count = 0 -> EmitGroupsCountingZeros(Tail(items), limit - 1)
      [] OTHER -> <<<<Head(items).row, Head(items).count>>>> \o EmitGroupsCountingZeros(Tail(items), limit - 1)

\* The emission loop of groupAPI: while numFound < limit, skip an item of
\* count 0, emit the others.
RECURSIVE EmitGroups(_, _)
EmitGroups(items, limit) ==
    CASE items = <<>> \/ limit = 0 -> <<>>
      [] Head(items).count = 0 -> EmitGroups(Tail(items), limit)
      [] OTHER -> <<<<Head(items).row, Head(items).count>>>> \o EmitGroups(Tail(items), limit - 1)

\* Server::groupAPI on the map aggregateIntoMap produced.
GroupAPI(m, keys, increasing, limit) == EmitGroups(SortedItems(m, keys, increasing), limit)

\* Spec section 4.5: the rows with count > 0, sorted by (count, the
\* field-value strings in the client's key order), the first `limit`.
SpecGroupAnswer(q, increasing, limit) ==
    LET key(r) == <<r[2]>> \o [k \in DOMAIN q.keys |-> StringRank(q.keys[k], r[1][q.keys[k]])]
        s == SetToSortSeq(Rows(Reference(q), ToSet(q.keys)),
                          LAMBDA x, y : IF increasing THEN SeqLess(key(x), key(y))
                                                      ELSE SeqLess(key(y), key(x)))
    IN SubSeq(s, 1, IF Len(s) < limit THEN Len(s) ELSE limit)

-----------------------------------------------------------------------------
(* Properties *)

\* Spec property 4 for the cache-backed plans: in every state reached by
\* loads, creates, updates, like batches and rebuilds, a GROUP query
\* answered from the incrementally maintained cache (filter as extra key,
\* or no filter) returns the rows of the naive scan.
CachedPlanAgrees ==
    \A q \in Queries : UsesCache(q) /\ ~Aborts(q) =>
        \A m \in Plans(q) : Rows(m, ToSet(q.keys)) = Rows(Reference(q), ToSet(q.keys))

\* The lookup plan returns the rows of the naive scan once the indexes it
\* iterates were rebuilt from the current accounts.
LookupPlanAgreesWhenFresh ==
    Fresh => \A q \in Queries : ~UsesCache(q) =>
        \A m \in Plans(q) : Rows(m, ToSet(q.keys)) = Rows(Reference(q), ToSet(q.keys))

\* Spec section 4.4: once the indexes are fresh, filterAPI returns the
\* first `limit` ids, descending, of the accounts satisfying every filter,
\* whichever filter the planner picks as driver and whatever writes,
\* creates and like batches preceded the rebuild.
FilterPlanAgreesWhenFresh ==
    Fresh => \A q \in FilterQueries : \A r \in FilterAPI(q) :
        r = FirstIds({i \in LiveIds : \A n \in DOMAIN q.filters : FilterHolds(i, q.filters[n])})

\* The ids InterestsFilter::findRemainingItems indexes usersAtInterestId
\* with: every value for CONTAINS, the single value unless it is -1 for
\* ANY.  rewriteFilters calls it, through estimateOutputSize, for every
\* lookup-capable interests filter of the query.
InterestListReads(q) ==
    UNION {IF q.filters[n].pred = "contains"
           THEN InterestValues(q.filters[n])
           ELSE InterestValues(q.filters[n]) \ {InvalidInterestId} :
              n \in {k \in LookupCandidates(q) : q.filters[k].name = "interests"}}

\* findRemainingItems for ANY asserts valuesVec.size() == 1, while
\* supportsLookup admitted the filter on values.size() == 1: a repeated
\* value, or two strings the dictionary does not know (both id -1), get
\* there with two entries.
AnyLookupAsserts(q) ==
    \E n \in LookupCandidates(q) :
        q.filters[n].name = "interests" /\ q.filters[n].pred = "any" /\ Len(ValuesVec(q.filters[n])) # 1

\* rewriteFilters faults on the query: an out-of-range usersAtInterestId
\* read or the MY_ASSERT of an ANY lookup.
RewriteFaults(q) == ~(InterestListReads(q) \subseteq bucketInterests) \/ AnyLookupAsserts(q)

\* A query reaches rewriteFilters: GROUP after both cached plans declined,
\* filterAPI whenever it has a filter.
GroupReachesRewrite(q) == ~UsesCache(q)

\* No GROUP or filter query faults: none reaches a MY_ASSERT (getValueId of
\* the cached rewrite, findRemainingItems of an ANY lookup), and none
\* indexes usersAtInterestId, which rebuildIndexes sized by
\* interestIdMap.size(), outside the interests the dictionary knew then
\* (an unknown interest has id -1).
QueriesNeverFault ==
    /\ \A q \in Queries : ~Aborts(q)
    /\ \A q \in Queries : GroupReachesRewrite(q) => ~RewriteFaults(q)
    /\ \A q \in FilterQueries : ~RewriteFaults(q)

\* Spec section 4.5: groupAPI answers the first `limit` non-empty rows in
\* (count, strings) order, ascending or descending, for every GROUP query
\* answered from the cache, and for every lookup once the indexes are
\* fresh.  The cached maps keep entries whose count updates and likes
\* brought to 0 (updateMapImpl never erases), and the emission loop must
\* skip them without spending the limit on them.
GroupAnswerMatchesSpec ==
    \A q \in Queries : ~Aborts(q) /\ (UsesCache(q) \/ Fresh) =>
        \A m \in Plans(q), increasing \in BOOLEAN, limit \in GroupLimits :
            GroupAPI(m, q.keys, increasing, limit) = SpecGroupAnswer(q, increasing, limit)

=============================================================================

------------------------------ MODULE Recommend ------------------------------
(***************************************************************************)
(* The two ranking reads of Server: recommendForUser (with                 *)
(* appendFromBreakdown) over the recommend buckets of buildRecommendIndex, *)
(* and suggestAPI (with suggestByLikes) over the like edges.  Both are     *)
(* pure functions of the store of Accounts, evaluated in any of its        *)
(* states: the buckets are the ones built from `indexed` at the last       *)
(* rebuild, the account fields and edges are the current ones.            *)
(*                                                                         *)
(* The location filter is CountryFilter(eq) (LocationFilter::parse with    *)
(* a country param; a city param behaves the same on city).  Similarity   *)
(* is a double sum of 1/|dt|; here it is the exact sum scaled by Scale, a  *)
(* common multiple of every |dt| the bounds produce.                      *)
(***************************************************************************)
EXTENDS Accounts

CONSTANTS
    Limits,      \* limit params (extractLimitParam: > 0)
    Locations,   \* country params, NoLocation for none ("" is rejected)
    NoLocation,
    Scale        \* weight of 1.0: divisible by every |ts difference|

\* LocationFilter::parse + CountryFilter::matches (eq).
LocationMatches(loc, a) == loc = NoLocation \/ a.country = loc

AbsDiff(x, y) == IF x > y THEN x - y ELSE y - x

\* Strictly greater in the lexicographic order of two equally long tuples.
TupleGt(a, b) == \E k \in DOMAIN a : a[k] > b[k] /\ \A j \in 1..k-1 : a[j] = b[j]

-----------------------------------------------------------------------------
(* recommend *)

\* data.sexEnum (MALE = 0 is also what a slot keeps if convertStringToSex threw).
SexEnumOf(s) == IF s = "f" THEN 1 ELSE 0

\* getRecommendBucket(sexEnum, premiumNow, status)
GetRecommendBucket(sexEnum, premiumNow, status) == status + 3 * (premiumNow + sexEnum * 2)

BucketOf(a) == GetRecommendBucket(SexEnumOf(a.sex), IF a.premium THEN 1 ELSE 0, a.status)

\* index.recommendBuckets[bin][interestId] as buildRecommendIndex left it.
UsersAtInterest(bin, interest) ==
    {u \in DOMAIN indexed : BucketOf(indexed[u]) = bin /\ interest \in indexed[u].interests}

\* Mutant: the age difference ranked the wrong way round.
CompatibilityKeyOldestFirst(myData, u, numInterests) ==
    <<IF acc[u].premium THEN 1 ELSE 0, -acc[u].status, numInterests,
      AbsDiff(myData.birth, acc[u].birth), -u>>

\* CompatibilityInput::getSortingKey, read from the current accountsArray.
CompatibilityKey(myData, u, numInterests) ==
    <<IF acc[u].premium THEN 1 ELSE 0, -acc[u].status, numInterests,
      -AbsDiff(myData.birth, acc[u].birth), -u>>

\* Server::appendFromBreakdown: tally common interests over the bucket's
\* lists (skipping me), keep the candidates the location accepts, sort by
\* compatibility and append until the result holds `limit` ids.
AppendFromBreakdown(me, myData, bin, loc, limit, result) ==
    LET numCommon(u) == Cardinality({k \in DOMAIN myData.interests :
                                        u \in UsersAtInterest(bin, myData.interests[k])})
        cands == {u \in DOMAIN indexed \ {me} : numCommon(u) > 0 /\ LocationMatches(loc, acc[u])}
        key(u) == CompatibilityKey(myData, u, numCommon(u))
        sorted == SetToSortSeq(cands, LAMBDA x, y : TupleGt(key(x), key(y)))
    IN result \o SubSeq(sorted, 1, Min({limit - Len(result), Len(sorted)}))

\* Server::recommendForUser: the opposite sex's buckets, premium now
\* first, then status 0..2, returning as soon as `limit` ids are found.
RecommendForUser(me, limit, loc) ==
    LET myData == acc[me]
        opp == 1 - SexEnumOf(myData.sex)
        bins == [k \in 1..6 |-> GetRecommendBucket(opp, IF k <= 3 THEN 1 ELSE 0, (k - 1) % 3)]
    IN FoldLeft(LAMBDA r, bin : IF Len(r) >= limit THEN r
                                ELSE AppendFromBreakdown(me, myData, bin, loc, limit, r),
                <<>>, bins)

-----------------------------------------------------------------------------
(* suggest *)

\* 1.0 / likeDiff, or 1.0 when likeDiff < EPSILON (timestamps are integers).
Weight(d) == IF d = 0 THEN Scale ELSE Scale \div d

\* The <<forward edge of me, backward edge of its likee>> pairs the
\* similarity loop visits: likees that exist, likers that exist and are not me.
SimilarityPairs(me) ==
    UNION {{<<n, k>> : k \in {k \in DOMAIN backward[likes[me][n][1]] :
                                 Exists(backward[likes[me][n][1]][k][1])
                                 /\ backward[likes[me][n][1]][k][1] # me}} :
           n \in {n \in DOMAIN likes[me] : Exists(likes[me][n][1])}}

PairLiker(me, p) == backward[likes[me][p[1]][1]][p[2]][1]

PairWeight(me, p) == Weight(AbsDiff(likes[me][p[1]][2], backward[likes[me][p[1]][1]][p[2]][2]))

\* similarity[x], scaled.
Similarity(me, x) ==
    MapThenSumSet(LAMBDA p : PairWeight(me, p), {p \in SimilarityPairs(me) : PairLiker(me, p) = x})

\* mostSimilar sorted in reverse: by similarity, then by id, descending.
MostSimilar(me) ==
    SetToSortSeq({PairLiker(me, p) : p \in SimilarityPairs(me)},
                 LAMBDA x, y : TupleGt(<<Similarity(me, x), x>>, <<Similarity(me, y), y>>))

LikedByMe(me) == {e[1] : e \in {e \in ToSet(likes[me]) : Exists(e[1])}}

\* Mutant: the ids a similar user likes are not checked against likedByMe.
PerSimilarUserResultsNoLikedCheck(me, x, taken) ==
    SetToSortSeq({e[1] : e \in ToSet(likes[x])} \ taken, >)

\* The ids x likes that me has not liked and no earlier user gave,
\* sorted descending (`taken` is the set of ids appended so far).
PerSimilarUserResults(me, x, taken) ==
    SetToSortSeq({e[1] : e \in ToSet(likes[x])} \ (LikedByMe(me) \cup taken), >)

\* Server::suggestByLikes: walk the similar users the location accepts,
\* append their results, stop once `limit` ids are there, truncate.
SuggestByLikes(me, limit, loc) ==
    LET r == FoldLeft(LAMBDA res, x :
                          IF Len(res) >= limit \/ ~LocationMatches(loc, acc[x]) THEN res
                          ELSE res \o PerSimilarUserResults(me, x, ToSet(res)),
                      <<>>, MostSimilar(me))
    IN SubSeq(r, 1, Min({limit, Len(r)}))

\* Server::suggestAPI: ids that are not an existing account are skipped.
SuggestAPI(me, limit, loc) == SelectSeq(SuggestByLikes(me, limit, loc), Exists)

-----------------------------------------------------------------------------
(* Properties *)

\* Spec section 4.6 as a ranking of the whole store: the existing accounts
\* of the other sex sharing an interest with me, accepted by the location,
\* by (premium now, -status, common interests, -age difference, -id)
\* descending, the first `limit`.
RecommendReference(me, limit, loc) ==
    LET m == acc[me]
        common(u) == Cardinality(ToSet(m.interests) \cap ToSet(acc[u].interests))
        cands == {u \in LiveIds \ {me} : acc[u].sex # m.sex /\ common(u) > 0
                                         /\ LocationMatches(loc, acc[u])}
        key(u) == <<IF acc[u].premium THEN 1 ELSE 0, -acc[u].status, common(u),
                    -AbsDiff(m.birth, acc[u].birth), -u>>
        s == SetToSortSeq(cands, LAMBDA x, y : TupleGt(key(x), key(y)))
    IN SubSeq(s, 1, Min({limit, Len(s)}))

\* Whenever the buckets were built from the current accounts, recommend's
\* walk over the six buckets of the other sex, each sorted on its own and cut at the limit,
\* returns exactly the global ranking of the spec.
RecommendRanksWhenFresh ==
    indexed = IndexSnapshot(acc) =>
        \A me \in LiveIds, limit \in Limits, loc \in Locations :
            RecommendForUser(me, limit, loc) = RecommendReference(me, limit, loc)

\* A recommend for any existing account passes MY_ASSERT(interestId <
\* usersAtInterestId.size()) of appendFromBreakdown: every interest of the
\* account already had an id when the buckets were last built.
RecommendNeverAsserts == \A me \in LiveIds : ToSet(acc[me].interests) \subseteq bucketInterests

\* Spec section 4.7: the likers X of my likees ranked by similarity (ties
\* to the larger id); each X the location accepts contributes, descending,
\* the ids it likes that I did not like and no earlier X contributed; the
\* answer is the first `limit` existing accounts of that list.
SuggestReference(me, limit, loc) ==
    LET sim(x) == Similarity(me, x)
        ranked == SetToSortSeq({PairLiker(me, p) : p \in {p \in SimilarityPairs(me) :
                                                         LocationMatches(loc, acc[PairLiker(me, p)])}},
                               LAMBDA x, y : sim(x) > sim(y) \/ (sim(x) = sim(y) /\ x > y))
        liked(x) == {e[1] : e \in ToSet(likes[x])}
        new(k) == liked(ranked[k]) \ (LikedByMe(me) \cup UNION {liked(ranked[j]) : j \in 1..k-1})
        all == SelectSeq(FlattenSeq([k \in DOMAIN ranked |-> SetToSortSeq(new(k), >)]), Exists)
    IN SubSeq(all, 1, Min({limit, Len(all)}))

\* suggestAPI answers as spec section 4.7 says in every state of the store,
\* whatever order updates and like batches left the edge lists in.
SuggestMatchesSpec ==
    \A me \in LiveIds, limit \in Limits, loc \in Locations :
        SuggestAPI(me, limit, loc) = SuggestReference(me, limit, loc)

=============================================================================

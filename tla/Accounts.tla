------------------------------ MODULE Accounts ------------------------------
(***************************************************************************)
(* The account store (IndexStorage::accountsArray), its edge lists, the   *)
(* set of e-mails, and the precomputed group cache, together with the     *)
(* three write handlers of Server (newAPI, updateAPI, likesAPI) and the   *)
(* rebuild of IndexLoader (rebuildIndexes).  Each handler is one atomic   *)
(* step here: in the server all of them run under _updateMutex.  The      *)
(* module Server splits updateAPI into its unlocked validation and its    *)
(* locked application.                                                    *)
(*                                                                         *)
(* Data abstraction.  Of the cached breakdown fields the model keeps sex  *)
(* (single-valued, like status), country (dictionary value, like city),   *)
(* interests (the one multi-valued field), and the "extended" year fields *)
(* joined (kept as its year) and birth (kept in whole days, with the      *)
(* birthYear loadAccountData derives).  The other fields recommend ranks *)
(* by are kept too: status and hasPremiumNow (their group-cache maps are  *)
(* not).                                                                   *)
(* Country ids are represented by the strings they stand for: IdValueMap  *)
(* is append-only, so the two are in bijection.  Interest ids are kept as *)
(* ids, with interestIdMap as the set of ids it has handed out.  A JSON   *)
(* body is a record whose domain is the set of keys present in it.        *)
(***************************************************************************)
EXTENDS Integers, Sequences, FiniteSets, SequencesExt, FiniteSetsExt

CONSTANTS
    Ids,              \* account slots 1..MAX_ACCOUNT_ID
    Emails,           \* e-mail strings that bodies may carry
    EmailDomain,      \* getEmailDomain: the part of each e-mail after its '@'
    Countries,        \* country strings; "" is the empty country
    Cities,           \* city strings; "" is the empty city
    Interests,        \* interest dictionary ids
    Years,            \* joined years (offset from 1900)
    PremiumNow,       \* PREMIUM_NOW, the "current" time premium is tested at
    Dataset,          \* loaded files: [Ids -> body or NoBody]
    NoBody,           \* a slot with no account in the loaded files
    NewBodies,        \* bodies a client may POST to /accounts/new/
    UpdateBodies,     \* bodies a client may POST to /accounts/<id>/
    LikesBodies,      \* sequences of [liker, likee, ts] for /accounts/likes/
    FreshCreatesOnly, \* client assumption: /new/ only for an unused id and e-mail
    MaxWrites         \* bound on the number of accepted writes

VARIABLES
    acc,       \* acc[i]: AccountData of slot i (id = 0 when empty)
    likes,     \* likes[i]: forward edges <<likee, ts>> of slot i
    backward,  \* backward[i]: backward edges <<liker, ts>> of slot i
    emails,    \* index.emails
    cache,     \* cachedGroup1D/2D/3D: cache[K][tuple] = count
    indexed,   \* the accounts the single-value and recommend indexes were built from
    interestIds,     \* index.interestIdMap: the interest ids handed out so far
    bucketInterests, \* the interest ids recommendBuckets was sized for
    writes     \* number of accepted writes (model bound only)

vars == <<acc, likes, backward, emails, cache, indexed, interestIds, bucketInterests, writes>>

-----------------------------------------------------------------------------
(* AccountData and its loading *)

Sexes == {"m", "f"}
JoinedEpoch == 70   \* getYearFromTimestamp(0) - BASE_YEAR

\* Days of year y (offset from BASE_YEAR 1900) in gmtime's Gregorian calendar.
DaysInYear(y) ==
    IF (y + 1900) % 4 = 0 /\ ((y + 1900) % 100 # 0 \/ (y + 1900) % 400 = 0) THEN 366 ELSE 365

\* The year of day d, counted from 1 January of year y; d < 0 walks back.
RECURSIVE YearOfDay(_, _)
YearOfDay(d, y) ==
    CASE d < 0 -> YearOfDay(d + DaysInYear(y - 1), y - 1)
      [] d >= DaysInYear(y) -> YearOfDay(d - DaysInYear(y), y + 1)
      [] OTHER -> y

\* getYearFromTimestamp(t) - BASE_YEAR for a timestamp of whole days
\* since the epoch (birth is kept in days).
TimestampYear(t) == YearOfDay(t, JoinedEpoch)

EmptyAccount ==
    [id |-> 0, email |-> "", emailDomain |-> "", sex |-> "", country |-> "", city |-> "",
     joined |-> JoinedEpoch, interests |-> <<>>,
     status |-> 0, premium |-> FALSE, birth |-> 0, birthYear |-> JoinedEpoch]

\* convertStringToStatus (Status::SINGLE, COMPLICATED, IN_RELATIONSHIPS).
StatusOf == "single" :> 0 @@ "complicated" :> 1 @@ "taken" :> 2

\* hasPremiumNow(data) on the premium start/finish of the body.
HasPremiumNow(p) == p.start > 0 /\ p.start <= PremiumNow /\ PremiumNow <= p.finish

\* isValidId(accountsArray[id].id)
Live(i) == acc[i].id # 0
LiveIds == {i \in Ids : Live(i)}

Field(j, k, default) == IF k \in DOMAIN j THEN j[k] ELSE default

\* IndexLoader::loadAccountData: keys present in the body overwrite the
\* slot, interests are cleared and replaced, likes are appended; the
\* e-mail domain and birthYear are recomputed from the e-mail and birth
\* whether or not the body has them.  Bodies
\* carry a legal status and a premium with both start and finish.
LoadAccountData(j, d) ==
    [d EXCEPT !.email     = Field(j, "email", @),
              !.emailDomain = EmailDomain[Field(j, "email", d.email)],
              !.sex       = Field(j, "sex", @),
              !.status    = IF "status" \in DOMAIN j THEN StatusOf[j.status] ELSE @,
              !.country   = Field(j, "country", @),
              !.city      = Field(j, "city", @),
              !.birth     = Field(j, "birth", @),
              !.joined    = Field(j, "joined", @),
              !.premium   = IF "premium" \in DOMAIN j THEN HasPremiumNow(j.premium) ELSE @,
              !.interests = Field(j, "interests", @),
              !.birthYear = TimestampYear(Field(j, "birth", d.birth))]

\* interestIdMap.getOrCreateId for every interest of the body.
WithInterestIds(ids, j) == ids \cup ToSet(Field(j, "interests", <<>>))

JsonLikes(j) == Field(j, "likes", <<>>)

\* Mutant: the edge loop stops one short.
AppendBackwardSkipLast(bw, id, es) ==
    FoldLeft(LAMBDA b, e : [b EXCEPT ![e[1]] = Append(@, <<id, e[2]>>)], bw,
             SubSeq(es, 1, Len(es) - 1))

\* Server::newAPI / updateAPI: "backward likes need to be updated manually":
\* one backward edge <<id, ts>> for every forward edge in es, in order.
AppendBackward(bw, id, es) ==
    FoldLeft(LAMBDA b, e : [b EXCEPT ![e[1]] = Append(@, <<id, e[2]>>)], bw, es)

-----------------------------------------------------------------------------
(* The group cache *)

RegularFields == {"sex", "country", "interests"}
YearFields == {"joined", "birth"}

\* IndexLoader::precomputeGroups: 1D over regular fields; 2D a regular
\* field with a later regular or year field; 3D two regular fields with a
\* later regular or year field (names sorted, so sets of names).
CacheKeySets ==
    {K \in SUBSET (RegularFields \cup YearFields) :
        /\ Cardinality(K) \in 1..3
        /\ Cardinality(K \cap YearFields) <= 1
        /\ Cardinality(K \cap RegularFields) >= Cardinality(K) - 1
        /\ K \cap RegularFields # {}}

\* GroupField::getValue of a single-valued field: BirthField groups by
\* birthYear, the others by the field itself.
GroupValueOf(a, f) == IF f = "birth" THEN a.birthYear ELSE a[f]

\* How many times the value v of field f occurs in account a
\* (GroupField::getValue / InterestField::getValues).
Mult(a, f, v) ==
    IF f = "interests" THEN Cardinality({n \in DOMAIN a.interests : a.interests[n] = v})
    ELSE IF GroupValueOf(a, f) = v THEN 1 ELSE 0

FieldValues(a, f) == IF f = "interests" THEN ToSet(a.interests) ELSE {GroupValueOf(a, f)}

\* GroupList::updateMapImpl expands an account into one key tuple per
\* combination of its field values; Incidence counts the combinations.
TuplesOf(a, K) ==
    FoldSet(LAMBDA f, T : {t @@ (f :> v) : t \in T, v \in FieldValues(a, f)},
            {[f \in {} |-> 0]}, K)

IncidenceOf(a, K, t) ==
    FoldSet(LAMBDA f, p : p * Mult(a, f, t[f]), 1, K)

\* GroupList::updateMap(data, map, delta) on one cached map.
UpdateMap(m, a, K, delta) ==
    [t \in DOMAIN m \cup TuplesOf(a, K) |->
        (IF t \in DOMAIN m THEN m[t] ELSE 0) + delta * IncidenceOf(a, K, t)]

\* IndexLoader::updateCachedGroupResult(data, delta)
UpdateCachedGroupResult(c, a, delta) ==
    [K \in CacheKeySets |-> UpdateMap(c[K], a, K, delta)]

-----------------------------------------------------------------------------
(* Sorting (SORT_REVERSE, TLC's SortSeq with ">"): descending; edges by   *)
(* peer id.  std::sort is not stable; edges with the same peer are put in  *)
(* descending ts order, an order no reader of the lists tells apart.       *)

IntGt(x, y) == x > y
EdgeGt(x, y) == x[1] > y[1] \/ (x[1] = y[1] /\ x[2] > y[2])

\* IndexLoader::sortAccountData: only slots holding an account are sorted.
SortedInterests(a) ==
    [i \in Ids |-> IF a[i].id # 0 THEN [a[i] EXCEPT !.interests = SortSeq(@, IntGt)]
                   ELSE a[i]]
SortedEdges(a, l) == [i \in Ids |-> IF a[i].id # 0 THEN SortSeq(l[i], EdgeGt) ELSE l[i]]

-----------------------------------------------------------------------------
(* Loading (IndexLoader::loadDataFromDirectory) *)

\* accountExists(id)
Exists(i) == i \in Ids /\ Live(i)

\* The account files, each body loaded onto an empty slot of its id.
LoadedAcc ==
    [i \in Ids |-> IF Dataset[i] = NoBody THEN EmptyAccount
                   ELSE LoadAccountData(Dataset[i], [EmptyAccount EXCEPT !.id = i])]

LoadedLikes == [i \in Ids |-> IF Dataset[i] = NoBody THEN <<>> ELSE JsonLikes(Dataset[i])]

\* buildBackwardLikes: an edge to a likee that is not loaded is skipped.
LoadedBackward ==
    FoldSet(LAMBDA i, b :
                AppendBackward(b, i, SelectSeq(LoadedLikes[i],
                                               LAMBDA e : LoadedAcc[e[1]].id # 0)),
            [i \in Ids |-> <<>>], Ids)

\* precomputeGroupResults: every account of a added once to every map.
Histogram(a, live, K) ==
    [t \in UNION {TuplesOf(a[i], K) : i \in live} |->
        MapThenSumSet(LAMBDA i : IncidenceOf(a[i], K, t), live)]

\* buildSingleValueIndexes / buildRecommendIndex scan the live accounts;
\* an id is pushed once per interest, so the lists see interests as a set.
IndexSnapshot(a) ==
    [i \in {k \in Ids : a[k].id # 0} |-> [a[i] EXCEPT !.interests = ToSet(@)]]

\* loadDataFromDirectory: load, buildBackwardLikes, sortAccountData,
\* buildListOfEmails, buildSingleValueIndexes, precomputeGroups/Results.
Init ==
    LET live == {i \in Ids : LoadedAcc[i].id # 0} IN
    /\ acc = SortedInterests(LoadedAcc)
    /\ likes = SortedEdges(LoadedAcc, LoadedLikes)
    /\ backward = SortedEdges(LoadedAcc, LoadedBackward)
    /\ emails = {LoadedAcc[i].email : i \in live}
    /\ cache = [K \in CacheKeySets |-> Histogram(LoadedAcc, live, K)]
    /\ indexed = IndexSnapshot(LoadedAcc)
    /\ interestIds = UNION {WithInterestIds({}, Dataset[i]) : i \in live}
    /\ bucketInterests = interestIds
    /\ writes = 0

-----------------------------------------------------------------------------
(* Write handlers *)

\* Server::newAPI.  Only the id is checked (getInt32Field, isValidId); the
\* body is loaded onto whatever the slot holds.  Every like of the slot
\* gets a backward edge, then the e-mail is inserted and the cache updated.
\* An illegal sex makes convertStringToSex throw in the middle of
\* loadAccountData: the slot already has its id, e-mail, e-mail domain and
\* sex string, nothing after it runs, and handlePost does not catch the
\* exception.
NewAPI(j) ==
    LET id   == j.id
        data == LoadAccountData(j, [acc[id] EXCEPT !.id = id])
        es   == likes[id] \o JsonLikes(j)
    IN /\ writes < MaxWrites
       /\ id \in Ids
       /\ FreshCreatesOnly => ~Live(id) /\ data.email \notin emails
       /\ writes' = writes + 1
       /\ UNCHANGED <<indexed, bucketInterests>>
       /\ IF data.sex \in Sexes
          THEN /\ acc' = [acc EXCEPT ![id] = data]
               /\ likes' = [likes EXCEPT ![id] = es]
               /\ backward' = AppendBackward(backward, id, es)
               /\ emails' = emails \cup {data.email}
               /\ cache' = UpdateCachedGroupResult(cache, data, 1)
               /\ interestIds' = WithInterestIds(interestIds, j)
          ELSE /\ acc' = [acc EXCEPT ![id].id = id, ![id].email = data.email,
                                      ![id].emailDomain = data.emailDomain, ![id].sex = data.sex]
               /\ UNCHANGED <<likes, backward, emails, cache, interestIds>>

\* Mutants of validateUpdateJSON: one of its two checks dropped.
ValidUpdateNoSexCheck(j) == "email" \in DOMAIN j => j.email \notin emails
ValidUpdateNoEmailCheck(j) == "sex" \in DOMAIN j => j.sex \in Sexes

\* Server::validateUpdateJSON, the checks on the abstracted fields: a legal
\* sex, and an e-mail not in index.emails (the account's own one included).
ValidUpdate(j) ==
    /\ "sex" \in DOMAIN j => j.sex \in Sexes
    /\ "email" \in DOMAIN j => j.email \notin emails

\* Mutant: REMOVE_ACCOUNT applied after loadAccountData instead of before.
ApplyUpdateRemoveAfterLoad(id, j) ==
    LET data == LoadAccountData(j, acc[id])
        es   == likes[id] \o JsonLikes(j)
    IN /\ emails' = IF "email" \in DOMAIN j
                    THEN (emails \ {acc[id].email}) \cup {j.email}
                    ELSE emails
       /\ cache' = UpdateCachedGroupResult(UpdateCachedGroupResult(cache, data, -1),
                                           data, 1)
       /\ acc' = [acc EXCEPT ![id] = data]
       /\ likes' = [likes EXCEPT ![id] = es]
       /\ backward' = AppendBackward(backward, id, es)
       /\ interestIds' = WithInterestIds(interestIds, j)

\* The locked part of Server::updateAPI: swap the e-mail, remove the old
\* data from the cache, load the body, append backward edges for all of
\* the slot's likes, add the new data to the cache.
ApplyUpdate(id, j) ==
    LET data == LoadAccountData(j, acc[id])
        es   == likes[id] \o JsonLikes(j)
    IN /\ emails' = IF "email" \in DOMAIN j
                    THEN (emails \ {acc[id].email}) \cup {j.email}
                    ELSE emails
       /\ cache' = UpdateCachedGroupResult(UpdateCachedGroupResult(cache, acc[id], -1),
                                           data, 1)
       /\ acc' = [acc EXCEPT ![id] = data]
       /\ likes' = [likes EXCEPT ![id] = es]
       /\ backward' = AppendBackward(backward, id, es)
       /\ interestIds' = WithInterestIds(interestIds, j)

\* Server::updateAPI: 404 unless the account exists, 400 unless valid.
UpdateAPI(id, j) ==
    /\ writes < MaxWrites
    /\ Live(id)
    /\ ValidUpdate(j)
    /\ ApplyUpdate(id, j)
    /\ writes' = writes + 1
    /\ UNCHANGED <<indexed, bucketInterests>>

\* Server::likesAPI: every liker and likee must exist; then each like
\* appends a forward edge to its liker and a backward edge to its likee.
LikesAPI(batch) ==
    /\ writes < MaxWrites
    /\ \A n \in DOMAIN batch : Exists(batch[n].liker) /\ Exists(batch[n].likee)
    /\ likes' = FoldLeft(LAMBDA l, x : [l EXCEPT ![x.liker] = Append(@, <<x.likee, x.ts>>)],
                         likes, batch)
    /\ backward' = FoldLeft(LAMBDA b, x : [b EXCEPT ![x.likee] = Append(@, <<x.liker, x.ts>>)],
                            backward, batch)
    /\ writes' = writes + 1
    /\ UNCHANGED <<acc, emails, cache, indexed, interestIds, bucketInterests>>

\* IndexLoader::rebuildIndexes: buildSingleValueIndexes, buildRecommendIndex
\* (its buckets sized by interestIdMap.size()), sortAccountData.  The group
\* cache and e-mails are left as they are.
RebuildIndexes ==
    /\ acc' = SortedInterests(acc)
    /\ likes' = SortedEdges(acc, likes)
    /\ backward' = SortedEdges(acc, backward)
    /\ indexed' = IndexSnapshot(acc')
    /\ bucketInterests' = interestIds
    /\ UNCHANGED <<emails, cache, interestIds, writes>>

Next ==
    \/ \E j \in NewBodies : NewAPI(j)
    \/ \E id \in Ids, j \in UpdateBodies : UpdateAPI(id, j)
    \/ \E b \in LikesBodies : LikesAPI(b)
    \/ RebuildIndexes

Spec == Init /\ [][Next]_vars

-----------------------------------------------------------------------------
(* Properties *)

Edges == Seq(Ids \X Nat)

TypeOK ==
    /\ acc \in [Ids -> [id : Ids \cup {0}, email : Emails \cup {""},
                        emailDomain : Range(EmailDomain) \cup {""},
                        sex : Sexes \cup {""}, country : Countries, city : Cities,
                        joined : Years \cup {JoinedEpoch}, interests : Seq(Interests),
                        status : 0..2, premium : BOOLEAN, birth : Int, birthYear : Int]]
    /\ bucketInterests \subseteq interestIds /\ interestIds \subseteq Interests
    /\ \A i \in Ids : likes[i] \in Edges /\ backward[i] \in Edges
    /\ emails \subseteq Emails \cup {""}
    /\ DOMAIN cache = CacheKeySets
    /\ writes \in 0..MaxWrites

\* The group cache is the histogram of the live accounts: for every cached
\* key set, every tuple an account has is a key of the map (so the
\* MY_ASSERT(delta > 0) of updateMapImpl never fires on a removal), and
\* every count equals the number of live (account, combination) pairs.
\* newAPI on an id already in use adds the account a second time.
CacheMatchesHistogram ==
    \A K \in CacheKeySets :
        /\ \A i \in LiveIds : TuplesOf(acc[i], K) \subseteq DOMAIN cache[K]
        /\ \A t \in DOMAIN cache[K] :
               cache[K][t] = MapThenSumSet(LAMBDA i : IncidenceOf(acc[i], K, t), LiveIds)

\* index.emails is exactly the set of e-mails of live accounts, and no two
\* live accounts share one: the uniqueness that validateUpdateJSON relies on,
\* kept across newAPI, updateAPI's erase/insert, and overwrites of a slot.
EmailRegistryExact ==
    /\ emails = {acc[i].email : i \in LiveIds}
    /\ \A i, k \in LiveIds : i # k => acc[i].email # acc[k].email

\* Spec invariant 1: every forward like of a live account to a live account
\* has its backward edge, through load, newAPI, updateAPI and likesAPI.
BackwardEdgeExists ==
    \A a \in LiveIds : \A n \in DOMAIN likes[a] :
        Exists(likes[a][n][1]) => <<a, likes[a][n][2]>> \in ToSet(backward[likes[a][n][1]])

CountIn(s, x) == Cardinality({n \in DOMAIN s : s[n] = x})

\* The backward list of a live account is the multiset mirror of the
\* forward edges pointing at it: no edge is missing and none is doubled
\* (updateAPI re-appends backward edges for likes the account already had).
BackwardMirrorsForward ==
    \A b \in LiveIds :
        \A e \in ToSet(backward[b]) \cup
                 UNION {{<<a, e[2]>> : e \in {x \in ToSet(likes[a]) : x[1] = b}} : a \in LiveIds} :
            CountIn(backward[b], e) = CountIn(likes[e[1]], <<b, e[2]>>)

=============================================================================

# TLA+ models of the highloadcup-2018 accounts server

The server (`src/src/my_webserver/`) keeps every account in memory in
`IndexStorage::accountsArray`. It answers four GET queries: filter, group,
recommend and suggest. It also accepts three POST writes: create, update and
likes. A background thread rebuilds the read indexes once writes stop
arriving. The modules here check how the writes, the derived state and the
threads interact.

## Inventory

| Part | Code | State | Operations |
|---|---|---|---|
| Account store | `Types.h` AccountData, IndexStorage; `IndexLoader.h` | `accountsArray` (fields, `likes`, `backwardLikes`, `interests`), `emails`, dictionaries (`IdValueMap`) | load, `loadAccountData`, `buildBackwardLikes`, `sortAccountData` |
| Write handlers | `Server.h` newAPI / updateAPI / validateUpdateJSON / likesAPI; `HttpHandler.h` processUpdate | the store and the group cache, under `_updateMutex` | create, update, likes batch |
| Group cache | `IndexLoader.h` precomputeGroups / precomputeGroupResults / updateCachedGroupResult; `Group.h` updateMapImpl | `cachedGroup1D/2D/3D`: counts per key set and value tuple | built at load; +1/-1 per write |
| Read indexes | `IndexLoader.h` rebuildIndexes, buildSingleValueIndexes, buildRecommendIndex | `usersAt*`, recommend buckets | rebuilt by the checker thread |
| Concurrency | `HttpHandler.h` handleGet / handlePost / checkRebuild; `Semaphore.h` | 50 civetweb threads; `_semaphore` (1 permit, 4 in production); `_updateMutex`; `numPosts`, `rebuildingIndex` | every request; poll every 100 ms; rebuild after 1200 ms without POSTs |
| Group planner | `QueryOptimizer.h`, `Group.h`, `Filter.h` parseGroupFilter | none (pure) | cached rewrites vs naive scan |
| Filter planner | `Filter.h`, `Server.h` filterAPI | none (pure) | index lookup + merge matching |
| Iterators | `Iterator.h` | iterator positions | id-list, like-edge dedup, intersection |
| Recommend / suggest | `Server.h` recommendForUser / appendFromBreakdown / suggestByLikes / suggestAPI, `Types.h` CompatibilityInput, `IndexLoader.h` buildRecommendIndex | recommend buckets (rebuilt); reads the accounts and edges | bucket walk and compatibility sort; similarity ranking |
| Transport, JSON, logging | `Route.h`, `EpollServer.h`, `http_helpers.h`, `main.cpp`, `MemoryUsage.h`, `Util.h` | sockets, buffers | not modelled: byte-level I/O |

### How the parts interact

- **Writes keep derived state up to date.** Every write runs under
  `_updateMutex`. It updates the account, its edge lists, `emails` and the
  group cache in place.
- **Read indexes are rebuilt, not maintained.** The single-value and
  recommend indexes are not updated by writes. They are rebuilt by
  `checkRebuild` once `numPosts` has stopped moving.
- **The rebuild takes no lock.** A GET aborts with 400 when it sees
  `rebuildingIndex`. It tests this only once, after its permit.

### What is hard here

- Several actors share state with only partial locking.
- One write is a sequence of updates to several derived structures.
- The handlers trust their input: no existence check or e-mail check on
  create.

## Modules

| Module | Models | State ↔ code |
|---|---|---|
| `Accounts` | the store, the group cache and the three write handlers as atomic steps (they run under `_updateMutex`), plus the rebuild | `acc` = accountsArray fields, `likes`/`backward` = edge vectors, `emails` = index.emails, `cache[K][tuple]` = cachedGroup maps, `indexed` = snapshot the read indexes were built from, `interestIds` = interestIdMap, `bucketInterests` = the interest ids the recommend buckets were sized for |
| `Server` | worker threads, semaphore, `_updateMutex`, checkRebuild | `pc[t]` = position in handleGet/handlePost, `sem`, `mutex`, `numPosts`, `prev`/`needRebuild`/`rebuilding`, `pos` = account the rebuild scan is at, `data`/`idx` = account version written/indexed, `email`/`emails` |
| `GroupPlanner` | the read side over the `Accounts` state: GroupOptimizer's three plans, `groupAPI`'s output, `filterAPI` with `rewriteFilters`, `tryOptimizedFilterQuery` and the fallback scan, and the sex, status, country, city, email, joined, birth, premium, interests and likes filters | no state of its own: operators over `acc`, `cache` and `indexed`, checked as invariants in every store state |
| `Iterators` | `IdListIterator`, `LikeEdgeIterator`, `IntersectionIdIterator` under the likes_contains lookup, consumed by the loop of `tryOptimizedFilterQuery` | `it` = the iterator tree (leaf cursors, `value`), `ids` = the result vector, `pc` = the loop's next call; `fw`/`vals`/`other` = inputs fixed in Init |
| `Recommend` | recommend and suggest over the `Accounts` state | no state of its own: `UsersAtInterest` is the bucket list built from `indexed`, compatibility and similarity are read from the current `acc`, `likes`, `backward` |
| `IdStream` | what a lookup-driven query promises: the first `limit` matching ids, strictly descending | `out`, `done`, `want`; `Iterators` implements it with `out <- ids`, `done <- pc = "done"`, `want <- Want` |

### How Accounts abstracts the data

- **Fields kept.**
  - `sex` stands for the single-valued fields (it is also validated).
  - `country` and `city` are the dictionary fields. `city` is kept for the
    filters only: it is not a group key of the model.
  - `email` is kept with `emailDomain`, which `loadAccountData` recomputes
    from the e-mail on every load. `getEmailDomain` is the constant table
    `EmailDomain`, because TLC cannot split a string.
  - `interests` is the one multi-valued field.
  - `joined` and `birth` are the two year fields. `joined` is kept as its
    year. `birth` is kept as a timestamp in whole days, because recommend
    and the `lt`/`gt` filters compare it. `loadAccountData` derives
    `birthYear` from it by `getYearFromTimestamp`. `TimestampYear` models
    that with gmtime's Gregorian calendar, negative days (births before
    1970) included.
  - `status` and premium-now are kept for recommend. Their group-cache
    maps are not modelled (status behaves like sex there).
- **Cache key sets.** `CacheKeySets` is the key family of `precomputeGroups`
  over these five fields: 19 key sets.
- **Bodies.** A JSON body is a record whose domain is the keys present.
  `LoadAccountData` keeps the "present keys overwrite" semantics. A status
  is a string converted by `StatusOf`. A premium is `[start, finish]`,
  turned into premium-now by `HasPremiumNow` against `PremiumNow`.
- **Create with an illegal sex.** `convertStringToSex` throws inside
  `loadAccountData`. By then the slot already has its id, e-mail and sex
  string. `NewAPI` models that branch: nothing after the throw runs, and
  neither `newAPI` nor `handlePost` catches the exception.

### How Recommend abstracts the reads

- Recommend and suggest change no state. They are operators evaluated in
  every store state and compared with a reference written from spec
  sections 4.6 and 4.7.
- The location filter is the country filter (`LocationFilter::parse` with a
  `country` param). `city` runs the same code on another field.
- The similarity `1/|dt|` is summed exactly, as integers scaled by `Scale`,
  a common multiple of every time difference in the bounds. Rounding of the
  double sum is not modelled (a hazard in PROJECT.json).

### How Server abstracts the data

- Every POST is an update that may carry an e-mail.
- The content of an account is the number of writes applied to it.
- The 100 ms poll and the 1200 ms quiet period are not time. A request may
  take arbitrarily long, so any poll that sees no new POST may find the quiet
  period elapsed.

### How GroupPlanner abstracts the queries

- A GROUP query is a record: `keys` is the sequence `GroupList::parse` keeps, and `filters` is a sequence of `[name, pred, value]`.
- The filters modelled, with their predicates:
  - sex `eq`; status `eq` and `neq`; country `eq` and `null`; joined `year`; birth `lt`, `gt` and `year`; premium `now`;
  - interests `contains` and `any`;
  - likes `contains`.
- `SupportsLookup` says which filters may drive a lookup. A query with none of them takes the fallback scan: `NaivePlan` for GROUP, the scan over `FilterList::matches` for `filterAPI`.
- The order of `filters` stands for the iteration order of the unordered `RequestParams`. The MC lists the orders that matter.
- An interests filter carries the sequence of interests `splitString` gives, repeats included. `InterestValues` is the code's `values` (the set of their ids) and `ValuesVec` its `valuesVec` (the list, sorted descending). `InterestIdOf` turns each interest into its dictionary id, or -1 when the dictionary does not know it (`IdValueMap::getId`). Its `contains` and `any` merges are `ContainsMerge` and `AnyMerge`, recursive operators over the descending sequences.
- A likes filter carries the sequence of ids as the client wrote it, repeats included. `LikesFilter::matches` is the same `ContainsMerge` over the account's forward edges.
- The likes lookup is the set of likers of every value, read from the current backward lists. This is the set `Iterators` proves the intersection of `LikeEdgeIterator`s yields once the lists are sorted. Its size estimate is the smaller edge count, as `IntersectionIdIterator::size` computes it.
- Each plan is compared with the naive scan under the filters' meaning (`FilterHolds`).
- `groupAPI`'s output: `SortedItems` makes one `GroupSortingItem` per map entry, zero counts included, and sorts by (count, field strings in the client's key order), ascending or, for `order=-1`, descending. `EmitGroups` is the loop that skips zero counts and stops after `limit` emitted rows. The field strings are abstracted to their byte order: the constant `Collation` lists each key's values in the order of their strings. The JSON layout (a null country left out of the object) is not modelled.
- "Fresh" means no write since the last `rebuildIndexes`: the indexes match the accounts, and `sortAccountData` has sorted the interests and both edge lists.

### How Iterators models the calls

- The code is sequential. One step is one call of the loop: `valid()`, the body, or `next()`.
- Every call is a recursive operator that returns the iterator tree after the call. This includes the side effects of nested calls, such as the `iterateUntilMatch` inside `valid()` of an inner intersection.
- A failed `MY_ASSERT` of `IntersectionIdIterator::next` sets the node's `bad` flag.

## Runs

| Run | Result | Shows |
|---|---|---|
| `accounts_new_invalid_sex` | violation | A create with an illegal sex throws after the slot got its id: the account is live, but the group cache never counted it. |
| `accounts_duplicate_email` | violation | A create with a used e-mail is accepted (spec S6 says 400). |
| `accounts_update_backward` | violation | An update re-appends backward edges of old likes. |
| `server` (MC_Server.cfg) | pass, about 290,000 states | With 1 permit, e-mails stay unique under concurrent updates. Once POSTs stop, checkRebuild has seen them all and has no rebuild pending. |
| `server_read_during_rebuild` | violation | A GET reads while rebuildIndexes runs (spec §5 says exclusive). |
| `server_lost_index_update` | violation | A POST counted before the rebuild and applied after its scan is never indexed. |
| `server_email_race` | violation | With 4 permits, two updates to one new e-mail both succeed. |
| `store` (MC_GroupPlanner.cfg) | pass, 20,395 states, about 2 minutes | Clients only create unused ids and e-mails. Under that assumption, creates, updates, like batches and rebuilds keep the group cache equal to the histogram of live accounts (so the `delta > 0` assert never fires), `emails` equal to the unique live e-mails, and every forward like with its backward edge. In every store state, a GROUP query answered from the cache (no-filter histogram or filter-as-extra-key rewrite) gives the rows of the naive scan. `groupAPI` then emits the first `limit` non-empty rows in spec 4.5's order, although the cached maps keep the entries that updates brought to count 0. `suggestAPI` gives the answer of spec 4.7, whatever order writes left the edge lists in. Once the indexes are fresh, lookup-planned GROUP queries and `filterAPI` give the naive scan for every driver choice, and recommend's walk over the six buckets gives the global ranking of spec 4.6. |
| `iterators` (MC_Iterators.cfg) | pass, 47,553 states | The likes_contains lookup returns exactly the first `limit` matching ids, strictly descending; it refines `IdStream`. It holds for one to three values, repeated likes, repeated values and an empty slot. No `MY_ASSERT` fires, and every call advances a bounded measure, so the loop returns. |
| `recommend_new_interest` | violation | An update brings an interest string never seen before. Until the next rebuild, a recommend for that account fails `MY_ASSERT(interestId < usersAtInterestId.size())` and the server aborts. |
| `group_two_interests` | violation | `QueriesNeverFault` fails in the loaded store, where each of three queries faults on its own. `interests=a,b` as a GROUP filter reaches `MY_ASSERT` in `InterestsFilter::getValueId`, and the server aborts. `interests_contains` on an interest nobody has reads `usersAtInterestId[-1]`. `interests_any` on two unknown strings is admitted as a lookup because `values` holds one id (-1), and then `findRemainingItems` fails `MY_ASSERT(valuesVec.size() == 1)`. |
| `group_two_interest_lookup` | violation | On fresh indexes, the GROUP lookup with `interests=a,b` counts accounts that have only the rarer interest: `filterAPI` re-tests the interests driver (`checkLookup`), but the group path does not. The trace: an update leaves account 1 with interest 1 only, a rebuild makes both interests' lists one account long, and the interests filter, first among equals, drives with interest 1's list. |

PROJECT.json lists each violation as a finding, with the source line.

### Bounds

**Accounts:**
- 3 slots: two loaded accounts, and slot 3 free for a create.
- 4 e-mails, 3 countries, 2 interests, 2 years, `PREMIUM_NOW` = 2.
- At most 4 writes.
- The bodies cover:
  - a sex and status change with new interests;
  - premium ending exactly at `PREMIUM_NOW`, with the interests in ascending order;
  - an e-mail change;
  - a change to an e-mail already in use;
  - new likes, including one to the not-yet-created slot;
  - an invalid sex (rejected by `validateUpdateJSON`).
- The `accounts_new_invalid_sex` run gives a create with an illegal sex.
- The `recommend_new_interest` run adds interest 3 and an update that brings it.
- Like batches include one that needs slot 3 to exist.

This reaches every branch of the handlers and, via `RebuildIndexes`, every
update followed by a rebuild.

**GroupPlanner:** the store of `Accounts` with 1 to 3 accounts, and these queries:
- 13 GROUP queries:
  - the cached rewrite with one and two filters, a birth-year filter among them;
  - no filter;
  - a lookup on every field with 1 to 3 filters;
  - likes drivers of one and two ids;
  - a four-id likes filter, which reaches the naive fallback;
  - a birth-year filter among three, which the lookup plan handles.
- GROUP limits 1 and 2, with both orders. `Collation` puts interest 2's name before interest 1's, so the string order is not the id order. Updates bring cached entries to count 0, and ascending order puts them first, where limit 1 is decided.
- 14 filter queries with limit 2:
  - the scan, both with no filter and with only non-lookup filters (status `neq`, premium `now`);
  - each field as driver, including status `eq`, country `null`, a one-value `any` and likes of one and two ids;
  - a two-value interests driver, and interests filters that do not drive;
  - birth `lt` alone (a scan), birth `year` as a driver, and birth `gt` beside an interests driver;
  - email `lt` alone, email `domain` as a driver (the update to `d@y` moves an account to another domain), and `gt` beside `domain`;
  - city `eq` and `null=1` as drivers, and `any` with a city the dictionary has not seen.
- Births fall on both sides of 1 January 1970: 31 December 1969, and 1 and 3 January 1970. One update moves a birth to 2 January 1971. So the year derived from a negative timestamp, the 365 days of 1970, and an update that changes a cached birth year are all reached.

**Recommend:** limits 1 and 2, no location or either country, `Scale` = 12 (timestamps 5 to 9). The two loaded accounts differ in premium-now, status, interests and birth, and updates can make the other-sex candidates share premium-now, so both the bucket order and the sort inside a bucket decide the answer.

One update body stores interests in ascending order, so the sort done by the rebuild matters. Each of the three GROUP violation runs uses its own query set. `group_two_interests` adds interest 3, which no loaded account has, for its filter query.

**Iterators:**
- 3 accounts, each with up to two forward likes; repeats allowed.
- Likes-filter values: 10 value sequences of 1 to 3 ids. They include repeated ids and id 4, an empty slot.
- Two sets of ids accepted by the other filters; limit 2.

This reaches the single `LikeEdgeIterator`, the two-level and three-level intersections, empty sides, and the break at the limit.

**Server:**
- 2 threads, 2 accounts, at most 3 POSTs and 1 GET.
- Update bodies may carry e-mail `e3` (new), `e1` (in use) or none.

Two writers and one reader are the fewest that show the races. Each
counterexample needs 7 to 17 steps.

## Fairness

`Server` assumes weak fairness of each worker's steps (the OS schedules a
runnable thread) and of the checker thread (it wakes every 100 ms). Clients
are not required to send requests.

The semaphore gives no FIFO order (`condition_variable::notify_one`). Weak
fairness suffices here because requests are bounded: waiters stop competing
once the clients stop.

`EveryWriteIndexed` fails even under this fairness.

`Iterators` assumes no fairness. Its operators are recursive, and TLC evaluates `ENABLED` of them without caching, which is exponential. Termination is therefore shown by safety:
- `QueryReturns` says every call strictly increases a bounded measure (leaf cursors consumed, then the call within the round).
- Deadlock checking says every state before the return has a step.

## Not modelled, and why

- **HTTP transport, URL decoding, JSON parsing, logging, memory statistics,
  file I/O.** These are byte-level I/O. The loaded content is the `Dataset`
  constant.
- **The fname, sname and phone filters, and premium `null`.** They are string predicates of the same kind as the modelled email and city filters. Their planning is the same: `supportsLookup`, an index list, `matches`. The byte order of e-mails is abstracted to the ranks `Collation.email` lists.
- **A 400 followed by a 200.** `processFilter` and `processGroup` write a 400 in their catch blocks and do not return, so a 200 follows on the same connection. Replies are transport, so PROJECT.json lists this as a hazard with no property.
- **Interest ids past 127.** `InterestId` is `int8_t`, and a 2^8-wide dictionary is beyond TLC here. PROJECT.json lists it as a hazard.
- **Likee ids beyond `MAX_ACCOUNT_ID`.** The write is out of bounds, which
  is undefined behaviour. The models draw likee ids from `Ids`, and
  PROJECT.json lists it as a hazard.
- **A GET reading a container while a POST resizes it.** `handleGet` takes a
  `_semaphore` permit but not `_updateMutex`. With four permits, a GROUP read
  can iterate a cached `unordered_map` while `updateMapImpl` inserts a key
  into it (Group.h:229). A rehash under the reader is undefined behaviour.
  The models take each GET read as one atomic step, so this race is below
  their granularity. PROJECT.json lists it as a hazard with no property.
- **What civetweb does with the exception that escapes `handlePost`.** The
  model keeps the store as the throw leaves it; if the process ends instead,
  the create still brings the server down.

- **Properties left unchecked.** Each of these needs a violation run, and the project keeps one run per question:
  - creating an account on a used id (the cache counts it twice);
  - a like loaded towards an absent account (its backward edge is never added);
  - the keys=interests rewrite (it returns only the filtered interest's row);
  - a POST writing while the rebuild scans;
  - a GROUP lookup between a write and the next rebuild (the lookup filter is never re-tested; `group_two_interest_lookup` shows the same missing test on fresh indexes);
  - `likes=a,a` as a GROUP or filter query: `LikesFilter::matches` wants two likes of `a`, while the intersection lookup yields every liker of `a` once, so the answer depends on the driver. TLC finds it in the loaded store (`likes=2,2` behind `country=c1`), but the lookup violation run is spent on the interests miscount, which a trace shows only after writes and a rebuild;
  - an interest created after the last rebuild and then named in `interests_contains` (it reads `usersAtInterestId` past its end; `QueriesNeverFault` states it, and `group_two_interests` reaches the -1 case first);
  - a suggest cut short by a like to an empty slot (it needs a fourth slot).

  PROJECT.json lists each as a hazard, with the property that would catch it, or a note where none does.
- **The unsorted window between a write and the next rebuild.** During it, interests and backward likes are unsorted. `GroupPlanner` and `Iterators` state their agreement for fresh indexes only. Spec section 9 tolerates this window.

## Plan for the next sittings

1. Recommend and suggest between a write and the rebuild: a candidate walked in its old bucket, and a fourth slot for the short suggest answer.
2. Compose `Accounts` into `Server`: replace the version abstraction by the real writes. Then the group cache can be checked under the concurrent updates that 4 permits allow.

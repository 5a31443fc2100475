--------------------------- MODULE MC_GroupPlanner ---------------------------
(* GroupPlanner over the store of MC_Accounts, with GROUP queries that     *)
(* reach each plan of GroupOptimizer::aggregateIntoMap.                    *)
EXTENDS GroupPlanner, Recommend, MC_Accounts

Sex(v) == [name |-> "sex", pred |-> "eq", value |-> v]
Status(p, v) == [name |-> "status", pred |-> p, value |-> v]
Country(v) == [name |-> "country", pred |-> "eq", value |-> v]
CountryNull(v) == [name |-> "country", pred |-> "null", value |-> v]
Joined(v) == [name |-> "joined", pred |-> "year", value |-> v]
Birth(p, v) == [name |-> "birth", pred |-> p, value |-> v]
Email(p, v) == [name |-> "email", pred |-> p, value |-> v]
City(p, v) == [name |-> "city", pred |-> p, value |-> v]
PremiumNowIs(v) == [name |-> "premium", pred |-> "now", value |-> v]
HasInterests(s) == [name |-> "interests", pred |-> "contains", value |-> s]
AnyInterests(s) == [name |-> "interests", pred |-> "any", value |-> s]
Likes(s) == [name |-> "likes", pred |-> "contains", value |-> s]

\* Queries the plans answer as specified (cached rewrite, no filter, lookup).
MC_Queries ==
    {[keys |-> <<"country">>, filters |-> <<Sex("f")>>],
     [keys |-> <<"sex">>, filters |-> <<>>],
     [keys |-> <<"interests", "sex">>, filters |-> <<>>],
     [keys |-> <<"sex", "country">>, filters |-> <<Joined(111)>>],
     [keys |-> <<"country">>, filters |-> <<Sex("m"), HasInterests(<<2>>)>>],
     [keys |-> <<"country">>, filters |-> <<Sex("m"), Joined(110), HasInterests(<<2>>)>>],
     [keys |-> <<"sex", "country", "interests">>, filters |-> <<Joined(111)>>],
     [keys |-> <<"sex">>, filters |-> <<Country("c1"), Joined(111), Sex("f")>>],
     [keys |-> <<"country">>, filters |-> <<Likes(<<2>>)>>],
     [keys |-> <<"sex">>, filters |-> <<Sex("m"), Likes(<<1, 2>>)>>],
     [keys |-> <<"sex">>, filters |-> <<Likes(<<3, 1, 4, 2>>)>>],
     [keys |-> <<"interests">>, filters |-> <<Birth("year", 70)>>],
     [keys |-> <<"sex">>, filters |-> <<Birth("year", 70), Sex("f"), Country("c2")>>]}

\* filterAPI queries: the scan (no filter, or none lookup-capable), each
\* field as driver, a two-value interests driver (re-tested), an interests
\* filter that is not the driver, and likes drivers of one and two ids.
MC_FilterQueries ==
    {[filters |-> f] : f \in {<<>>, <<Sex("f")>>, <<HasInterests(<<1, 2>>)>>,
                              <<Country("c2"), HasInterests(<<1, 2>>)>>,
                              <<HasInterests(<<2>>), Sex("m")>>, <<Country(""), Sex("f")>>,
                              <<Status("neq", "single"), PremiumNowIs("0")>>,
                              <<Status("eq", "taken"), AnyInterests(<<1, 2>>)>>,
                              <<CountryNull("1"), AnyInterests(<<2>>)>>,
                              <<CountryNull("0"), Likes(<<2>>)>>,
                              <<Likes(<<1, 2>>), Sex("f")>>,
                              <<Birth("lt", 0)>>, <<Birth("year", 70), Sex("f")>>,
                              <<Birth("gt", 0), HasInterests(<<1>>)>>,
                              <<Email("lt", "c@x")>>, <<Email("domain", "x"), Sex("f")>>,
                              <<Email("gt", "a@x"), Email("domain", "y")>>,
                              <<City("eq", "k2"), Sex("f")>>, <<City("any", {"k1", "k3"})>>,
                              <<City("null", "1"), Sex("m")>>}}

\* The byte order of the key strings: "" (no country) first, "f" before
\* "m", and interest 2's name before interest 1's (dictionary ids follow
\* load order, not the order of the names).
\* The e-mails sort by their local part.
MC_Collation == [sex |-> <<"f", "m">>, country |-> <<"", "c1", "c2">>, interests |-> <<2, 1, 3>>,
                 email |-> <<"", "a@x", "b@x", "c@x", "d@y">>]

\* recommend and suggest params: a country or none.
MC_Locations == {NoLocation, "c1", "c2"}

\* An update that brings an interest string the dictionary has not seen.
MC_NewInterests == {1, 2, 3}
MC_NewInterestUpdateBodies == MC_UpdateBodies \cup {[interests |-> <<3>>]}

\* A GROUP interests filter with two values (cached rewrite), a filterAPI
\* interests_contains on an interest no account has, and an interests_any
\* on two strings the dictionary never hands out.
MC_TwoInterestQueries ==
    {[keys |-> <<"sex">>, filters |-> <<HasInterests(<<1, 2>>)>>]}

MC_UnknownInterestFilterQueries ==
    {[filters |-> <<HasInterests(<<3>>)>>], [filters |-> <<AnyInterests(<<4, 5>>)>>]}

\* GROUP lookups with a two-value interests filter beside a joined filter,
\* in both orders: four names, so no cached map answers them.  They
\* miscount once an update has left an account with one of the two
\* interests and a rebuild has made both lists equally short.
MC_LookupMiscountQueries ==
    {[keys |-> <<"sex", "country">>, filters |-> <<HasInterests(<<1, 2>>), Joined(110)>>],
     [keys |-> <<"sex", "country">>, filters |-> <<Joined(110), HasInterests(<<1, 2>>)>>]}
==============================================================================

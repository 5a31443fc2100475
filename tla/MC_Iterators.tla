---------------------------- MODULE MC_Iterators ----------------------------
EXTENDS Iterators

\* Three accounts; slot 4 is empty.
MC_Ids == {1, 2, 3}

\* Forward likes of one account, at most two, a liker may repeat a likee.
MC_Likes == {<<>>, <<1>>, <<2>>, <<3>>, <<2, 1>>, <<3, 1>>, <<3, 2>>, <<1, 1>>, <<3, 3>>}

\* LikesFilter::values after parsePredicate's descending sort: one to
\* three ids, repeats and the empty slot included.
MC_Queries ==
    {<<1>>, <<3>>, <<4>>, <<3, 1>>, <<2, 1>>, <<3, 3>>, <<4, 1>>, <<3, 2, 1>>, <<3, 1, 1>>, <<2, 1, 4>>}

MC_Others == {{1, 2, 3}, {1, 3}}

=============================================================================

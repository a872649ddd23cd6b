---------------------------- MODULE ChannelTests ----------------------------
(***************************************************************************)
(* channel_tests() of occase-db-tests.cpp, on the operators of Channel:    *)
(* what the repository's own test asserts of the vector of posts holds of  *)
(* its model.                                                              *)
(***************************************************************************)
EXTENDS Channel

LOCAL PostAt(id, location, product) ==
  [id |-> id, from |-> "", visualizations |-> 0,
   location |-> location, product |-> product]

\* Query location and product: the ids of both posts are empty.
QueryTest ==
  LET p1 == PostAt(0, <<1, 2, 3>>, <<1, 2, 3>>)
      p2 == PostAt(0, <<1, 3, 3>>, <<1, 3, 3>>)
      chn == AddPosts(<<>>, <<p1, p2>>)
      r == Query(chn, p1)
  IN  Len(r) = 1 /\ Head(r).location = p1.location

\* Visualizations: the number of the third post is not loaded, because the
\* second has none, and the test expects it so.
VisualizationsTest ==
  LET p == [i \in 1 .. 3 |-> PostAt(i, <<i>>, <<>>)]
      v == <<[id |-> 1, n |-> 10], [id |-> 3, n |-> 10]>>
      chn == LoadVisualizations(AddPosts(<<>>, p), v)
      expected == <<10, 0, 0>>
  IN  \A i \in 1 .. 3 :
        LET r == Query(chn, p[i])
        IN  Len(r) = 1 /\ Head(r).visualizations = expected[i]

ASSUME ChannelTest == QueryTest /\ VisualizationsTest
=============================================================================

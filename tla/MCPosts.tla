------------------------------ MODULE MCPosts ------------------------------
(* Posts with two ids, one below the other in the tree of locations. *)
EXTENDS Posts, ChannelTests

CodeOf == 1 :> [location |-> <<7>>, product |-> <<3>>]
          @@ 2 :> [location |-> <<7, 5>>, product |-> <<3>>]

View(i) == [id |-> i, news |-> [cmd |-> "visualization", id |-> i]]
Other(i) == [id |-> i, news |-> [cmd |-> "none"]]
Delete(i, u) == [id |-> i, news |-> [cmd |-> "delete", id |-> i, from |-> u]]
\* The post that is brought need not be the one of post_id.
Bring(i, u) ==
  [id |-> i,
   news |-> [cmd |-> "publish_internal",
             post |-> [id |-> 2, from |-> u, visualizations |-> 0,
                       location |-> Code[2].location,
                       product |-> Code[2].product]]]

BodiesOfApp == {View(1), View(2), Other(1)}
BodiesOfAll ==
  {View(1), View(2), Other(1), Delete(1, Admin), Bring(1, Admin)}

\* Processes are alike; ids are ordered and the admin is not like the others.
Symmetric == Permutations(Node)
=============================================================================

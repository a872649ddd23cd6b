------------------------------ MODULE Channel ------------------------------
(***************************************************************************)
(* src/channel.cpp: the posts of one process, a vector sorted by id.  The  *)
(* operators take the vector and return the new vector or what is found in *)
(* it.  Ids are random strings; only their order matters, so they are      *)
(* numbers here.  A post keeps the fields that the operations read.        *)
(*                                                                         *)
(* std::lower_bound and std::upper_bound are defined by their result on a  *)
(* sorted vector, which is what add_post maintains (see Sorted in Posts).  *)
(***************************************************************************)
EXTENDS Integers, Sequences, FiniteSets, SequencesExt

\* The place of the first post with this id, 0 if there is none (find_if).
Place(ps, id) == SelectInSeq(ps, LAMBDA p : p.id = id)

\* get(): the post at the lower bound of id.  No post is returned at the end
\* of the vector only; that the post has the id is not checked.
Get(ps, id) ==
  LET point == 1 + Cardinality({i \in DOMAIN ps : ps[i].id < id})
  IN  {ps[i] : i \in {point} \cap DOMAIN ps}

\* The place of c[i] once c is sorted by id, earlier posts first among equals.
Rank(c, i) ==
  Cardinality({j \in DOMAIN c :
                 c[j].id < c[i].id \/ (c[j].id = c[i].id /\ j <= i)})

\* Mutant: the new posts stay at the end.
AddPostsNoRotate(ps, new) == ps \o new
\* add_post() of the posts of new, one after the other: each is rotated to the
\* upper bound of its id, behind the posts with the same id.
AddPosts(ps, new) ==
  LET c == ps \o new
  IN  [k \in DOMAIN c |-> c[CHOOSE i \in DOMAIN c : Rank(c, i) = k]]

\* Mutant: the counter moves the wrong way.
OnVisualizationDown(ps, id) ==
  LET i == Place(ps, id)
  IN  IF i = 0 THEN ps ELSE [ps EXCEPT ![i].visualizations = @ - 1]
OnVisualization(ps, id) ==
  LET i == Place(ps, id)
  IN  IF i = 0 THEN ps ELSE [ps EXCEPT ![i].visualizations = @ + 1]

\* remove_post(): only the author removes a post, unless ignore_owner.
RemovePost(ps, id, from, ignore_owner) ==
  LET i == Place(ps, id)
  IN  IF i # 0 /\ (ps[i].from = from \/ ignore_owner)
      THEN RemoveAt(ps, i) ELSE ps

\* load_visualizations(): both v and ps are traversed once.  Cursor[i] is the
\* place in ps after i entries of v: it moves when the entry is for its post.
Cursor(ps, v) ==
  LET f[i \in 0 .. Len(v)] ==
        IF i = 0 THEN 1
        ELSE IF f[i - 1] <= Len(ps) /\ v[i].id = ps[f[i - 1]].id
             THEN f[i - 1] + 1 ELSE f[i - 1]
  IN  f

\* The entries of v that are loaded into the post at place k.
Loads(ps, v, k) ==
  {i \in DOMAIN v : Cursor(ps, v)[i - 1] = k /\ Cursor(ps, v)[i] = k + 1}

\* Mutant: the number is added to the one the post already has.
LoadVisualizationsAdding(ps, v) ==
  [k \in DOMAIN ps |->
     IF Loads(ps, v, k) = {} THEN ps[k]
     ELSE [ps[k] EXCEPT !.visualizations =
             @ + v[CHOOSE i \in Loads(ps, v, k) : TRUE].n]]
LoadVisualizations(ps, v) ==
  [k \in DOMAIN ps |->
     IF Loads(ps, v, k) = {} THEN ps[k]
     ELSE [ps[k] EXCEPT !.visualizations =
             v[CHOOSE i \in Loads(ps, v, k) : TRUE].n]]

\* filter() and query(): the posts whose location and product are below the
\* wanted ones, pushed back one after the other.  The second argument of query()
\* is not used.
IsChildOf(code, wanted) == IsPrefix(wanted, code)
Filter(p, q) ==
  IsChildOf(p.location, q.location) /\ IsChildOf(p.product, q.product)
Query(ps, q) ==
  LET ret[i \in 0 .. Len(ps)] ==
        IF i = 0 THEN <<>>
        ELSE IF Filter(ps[i], q) THEN Append(ret[i - 1], ps[i]) ELSE ret[i - 1]
  IN  ret[Len(ps)]
=============================================================================

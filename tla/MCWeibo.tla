------------------------------ MODULE MCWeibo -------------------------------
(***************************************************************************)
(* Bounds of Weibo for TLC: a spider with more posts than its buffer       *)
(* holds, and one whose only post is filtered.                             *)
(***************************************************************************)
EXTENDS Weibo

TwoSpiders == <<"genshin", "arknights">>
PostsOf == <<2, 1>>
FilteredPosts == {<<2, 1>>}
=============================================================================

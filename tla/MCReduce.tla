------------------------------ MODULE MCReduce ------------------------------
(* Expressions for Reduce: every one of a bounded length over some words,   *)
(* and longer ones in which copies of a value with alternatives meet again. *)
EXTENDS Reduce

CONSTANTS MaxWords, ShortWords

(* A value with alternatives is used twice, and the copies meet again.      *)
Joined == {
  <<"1", "2", "|", "dup", "==">>,
  <<"1", "1", "0", "|", "/">>,
  <<"1", "0", "|", "dup", "dup", "/", "+">>,
  <<"0", "1", "|", "1", "+", "dup", "==">>,
  <<"1", "0", "|", "dup", "2", "|", "+">>,
  <<"0", "1", "|", "dup", "swap", "1", "==", "!">>,
  <<"0", "1", "|", "0", "1", "|", "dup", "swap", "+", "+">>
}

(* A value waits for the failure of another, or for its success; copies of  *)
(* a value with alternatives are on both sides, and such guards are nested. *)
Guarded == {
  <<"1", "0", "|", "dup", "1", "==", "!", "2", "otherwise">>,
  <<"1", "0", "|", "dup", "2", "==", "!", "0", "1", "|", "otherwise">>,
  <<"1", "2", "|", "dup", "1", "0", "==", "!", "unless", "+">>,
  <<"1", "2", "|", "dup", "1", "1", "0", "==", "!", "unless", "+">>,
  <<"0", "1", "|", "dup", "2", "|", "seq">>,
  <<"0", "1", "|", "dup", "1", "==", "!", "dup", "seq">>,
  <<"1", "2", "otherwise", "0", "otherwise">>,
  <<"1", "1", "0", "==", "!", "2", "otherwise", "0", "otherwise">>,
  <<"1", "2", "|", "dup", "0", "unless", "unless">>,
  <<"0", "1", "2", "|", "1", "0", "unless", "dup", "+", "unless", "unless">>
}

(* Copies of a value that are two direct references to one cell.            *)
Shared == {
  <<"1", "2", "|", "1", "+", "share", "2", "|", "swap", "+">>,
  <<"1", "2", "|", "share", "0", "|", "swap", "+">>,
  <<"1", "2", "|", "share", "0", "|", "+">>,
  <<"0", "1", "+", "share", "0", "|", "share", "+", "+">>
}

MCAllowed(p) == \/ Len(p) <= MaxWords /\ ToSet(p) \subseteq ShortWords
                \/ \E q \in Joined \cup Guarded : IsPrefix(p, q)

MCShared(p) == \E q \in Shared : IsPrefix(p, q)
=============================================================================

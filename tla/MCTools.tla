------------------------------ MODULE MCTools ------------------------------
EXTENDS Tools

(* Lengths and seeks: nothing, inside and across buffers, in units, past   *)
(* 64 bits, endless, and one suffix that does not exist.                   *)
Size(b, u) == [base |-> b, unit |-> u]
MCTexts == {Size(0, ""), Size(6, ""), Size(11, ""), Size(18, ""), Size(21, ""),
            Size(1, "K"), Size(4, "K"), Size(3, "X"), Size(0, "inf")}
MCMultiplier == [u \in {"", "K"} |-> IF u = "K" THEN 8 ELSE 1]

-----------------------------------------------------------------------------
MCDisk == [n \in {"a", "b"} |-> IF n = "a" THEN <<"x">> ELSE <<"y", "z">>]
MCKeyFiles == [n \in {"k.txt"} |-> "k1"]

Entry(k, n, content) == [form |-> "entry", name |-> n, digest |-> Digest(k, content)]
Other(form) == [form |-> form, name |-> "", digest |-> Digest(NoKey, << >>)]

Good(k) == <<Other("blank"), Entry(k, "a", MCDisk["a"]), Entry(k, "b", MCDisk["b"])>>
Wrong(k) == <<Entry(k, "b", MCDisk["a"]), Entry(k, "a", MCDisk["a"])>>
Missing(k) == <<Entry(k, "a", MCDisk["a"]), Entry(k, "c", << >>)>>
Broken(k) == <<Entry(k, "a", MCDisk["a"]), Other("malformed")>>
\* A "-" line first: it takes what follows it when the list is standard input.
Dash(k) == <<Entry(k, "-", << >>), Entry(k, "b", MCDisk["a"])>>
\* One whose digest is right: of all the lines after it, or of a whole input.
Taker(k, rest) == <<Entry(k, "-", rest)>>

MCListFiles ==
  [n \in {"good", "wrong", "missing", "broken", "dash", "keyed", "taker"} |->
     CASE n = "good" -> Good(NoKey)
       [] n = "wrong" -> Wrong(NoKey)
       [] n = "missing" -> Missing(NoKey)
       [] n = "broken" -> Broken(NoKey)
       [] n = "dash" -> Dash(NoKey)
       [] n = "keyed" -> Good("k1")
       [] n = "taker" -> Taker(NoKey, Wrong(NoKey))]

KeyArgs == {NoKey, "k.txt", "no.txt", "-"}

MCCommands ==
  LET files == {<< >>, <<"a">>, <<"-">>, <<"a", "-", "b">>, <<"-", "c", "-">>}
      lists == {<<"good">>, <<"keyed">>, <<"good", "wrong">>, <<"missing", "good">>,
                <<"broken">>, <<"dash">>, <<"none", "good">>, <<"-", "keyed">>}
      datas == {<< >>, <<"k1">>, <<"k1", "x">>}
      keyed == {<<"k1", "blank">>, <<"k1", "blank", "x">>}
      inputs == {Good(NoKey), Good("k1"), Wrong(NoKey), Dash(NoKey), Broken("k1"),
                 Taker(NoKey, Wrong(NoKey)) \o Wrong(NoKey)}
  IN [key : KeyArgs, check : {FALSE}, files : files, input : datas]
     \cup [key : KeyArgs \ {"-"}, check : {TRUE}, files : lists, input : {<< >>}]
     \cup [key : {"-"}, check : {FALSE}, files : files, input : keyed]
     \cup [key : {"-"}, check : {TRUE}, files : lists, input : {<<"k1">>} \cup keyed]
     \cup [key : {NoKey, "k.txt"}, check : {TRUE},
           files : {<<"-">>, <<"good", "-">>, <<"taker", "-", "-">>}, input : inputs]
=============================================================================

------------------------------- MODULE MCConf -------------------------------
(* Small instances of Conf: files of the documented shape, and every event
   tree of a few nodes. *)
EXTENDS Conf, TLC

RankMC == ("" :> 0) @@ ("A" :> 1) @@ ("B" :> 2) @@ ("p" :> 3) @@ ("q" :> 4)
          @@ ("r" :> 5) @@ ("addr" :> 6) @@ ("note" :> 7) @@ ("port" :> 8)
          @@ ("max_slots" :> 9) @@ ("1" :> 10) @@ ("2" :> 11)
NumMC == [v \in DOMAIN RankMC |-> IF v = "1" THEN 1 ELSE IF v = "2" THEN 2 ELSE -1]
LeftZero == {0}   \* a fresh heap page

SeqsUpTo(S, n) == UNION {[1 .. m -> S] : m \in 0 .. n}
Pools(names, lines, n) == [1 .. n -> [name : names, lines : lines]]

(* One or two pools of up to two lines each, right or wrong ... *)
OneLine == {Line("addr", "A"), Line("port", "1"), Line("port", "p"),
            Line("note", "A"), Line("addr", ""), Listing("note", <<"A", "B">>),
            Listing("addr", <<"A">>), Listing("addr", <<"A", "B">>)}
TwoLines == {<<Line("addr", "A"), Line("port", "1")>>,
             <<Line("addr", "A"), Line("addr", "B")>>,
             <<Line("port", "1"), Listing("note", <<"A", "B">>)>>,
             <<Listing("note", <<"A", "B">>), Listing("addr", <<"B">>)>>}
Varied == {Written(ps) :
             ps \in Pools({"p"}, SeqsUpTo(OneLine, 2), 1)
                    \cup Pools({"p", "q"}, SeqsUpTo(OneLine, 1) \cup TwoLines, 2)}

(* ... three pools of a name and a place to listen each ... *)
Listens == {<<Line("addr", "A"), Line("port", "1")>>,
            <<Line("addr", "A"), Line("port", "2")>>,
            <<Line("addr", "B")>>, <<Line("port", "1")>>}
Triples == {Written(ps) : ps \in Pools({"p", "q", "r"}, Listens, 3)}

(* ... and files the first two passes turn down. *)
Plain    == Written(<<Pool("p", <<Line("addr", "A")>>)>>)
Rejected == {Banned(Plain), Broken(Plain), Twice(Plain), Empty}

FlatFiles == Varied \cup Triples \cup Rejected

(* Two pools with one list each, as the structure check demands, or not. *)
OneList == {<<l, Listing("note", v)>> :
              l \in {Line("addr", "A"), Line("port", "1"), Line("addr", "")},
              v \in {<<"A">>, <<"A", "B">>}}
           \cup {<<Listing("note", <<"A">>), Line("addr", "B")>>,
                 <<Listing("note", <<"A">>)>>,
                 <<Listing("note", <<"A">>), Listing("addr", <<"A">>)>>,
                 <<Line("addr", "A")>>}
LevelFiles == {Written(ps) : ps \in Pools({"p", "q"}, OneList, 2)}

(* Every event tree of n nodes over the scalars S: a key or a value may be
   anything, as in YAML; an empty block collection does not exist. *)
RECURSIVE Nodes(_, _), Rows(_, _)
Nodes(S, n) ==
  IF n = 1 THEN {<<Scalar(s)>> : s \in S}
  ELSE {Listed(r.events) : r \in Rows(S, n - 1)}
       \cup {Mapping(r.events) : r \in {x \in Rows(S, n - 1) : x.len % 2 = 0}}
Rows(S, n) ==
  {[len |-> 1, events |-> t] : t \in Nodes(S, n)}
  \cup UNION {{[len |-> r.len + 1, events |-> t \o r.events] :
                 t \in Nodes(S, m), r \in Rows(S, n - m)} : m \in 1 .. n - 1}

TreesUpTo(S, n) == {FileOf(t) : t \in UNION {Nodes(S, m) : m \in 1 .. n}}

LevelTrees == TreesUpTo({"addr", ""}, 5) \cup TreesUpTo({"p"}, 8) \cup LevelFiles
ScalarFile == {FileOf(<<Scalar("p")>>)}
Slots      == {Written(<<Pool("p", <<Line("max_slots", "1")>>)>>)}

(* As db.c calls it, without the structure check, and with it. *)
Asking(files, level) == {[file |-> f, multilevel |-> level] : f \in files}
ConfCalls   == Asking(FlatFiles, FALSE) \cup Asking(LevelTrees, TRUE)

(* Defined is about files of the documented shape, those whose structure is
   checked, and those the first two passes turn down: here, about all. *)
ASSUME ConfCallsTrusted == \A c \in ConfCalls : Trusted(c.file, c.multilevel)

ListenCalls == Asking(Triples, FALSE)
RootCalls   == Asking(ScalarFile, FALSE)
SlotsCalls  == Asking(Slots, FALSE)
(* Without the check any file is parsed: {p: p} is the first to go wrong. *)
OtherCalls  == Asking(TreesUpTo({"p"}, 4), FALSE)
=============================================================================

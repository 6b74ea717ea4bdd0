------------------------------ MODULE MCLoader ------------------------------
(* Programs of every kind the loader tells apart, an interpreter and three *)
(* libraries, of which one is needed twice and one is not there.  A library *)
(* spans three pages; a table of three objects is full with two libraries. *)
EXTENDS Loader

Seg(v, n) == [vaddr |-> v, memsz |-> n]
Rel(t, s, o, w) == [type |-> t, sym |-> s, offset |-> o, word |-> w]
File(type, segs, phdr, dyn, interp, need, defs, rels) ==
    [type |-> type, segments |-> segs, phdr |-> phdr, dynamic |-> dyn, interp |-> interp,
     needed |-> need, defines |-> defs, rels |-> rels, entry |-> 1]
Lib(defs, rels) == File("DYN", <<Seg(0, 5), Seg(9, 2)>>, 1, 5, NoInterp, <<>>, defs, rels)
App(need, rels) ==
    File("EXEC", <<Seg(41, 3), Seg(44, 3)>>, 42, 45, "ld", need, "f" :> 43, rels)

MCImage ==
    "ld" :> File("DYN", <<Seg(0, 6)>>, 1, 2, NoInterp, <<>>, <<>>,
                 <<Rel("RELATIVE", "", 1, 3), Rel("RELATIVE", "", 5, 3)>>) @@
    "x" :> Lib("f" :> 2 @@ "g" :> 3,
               <<Rel("RELATIVE", "", 1, 4), Rel("GLOB_DAT", "h", 2, 0), Rel("32", "f", 9, 1)>>) @@
    "y" :> Lib("g" :> 4 @@ "h" :> 1, <<Rel("JMP_SLOT", "g", 3, 0)>>) @@
    "z" :> Lib("k" :> 4, <<>>) @@
    "dyn1" :> App(<<"x", "y", "x">>, <<Rel("JMP_SLOT", "g", 44, 0), Rel("JMP_SLOT", "h", 45, 0)>>) @@
    "dyn2" :> App(<<"y", "lost", "x", "z">>,
                  <<Rel("JMP_SLOT", "g", 44, 0), Rel("32", "h", 45, 2), Rel("GLOB_DAT", "k", 46, 0)>>) @@
    "dyn3" :> App(<<"z", "y">>, <<>>) @@
    "nohdr" :> [App(<<"x">>, <<>>) EXCEPT !.phdr = 0] @@
    "static" :> File("EXEC", <<Seg(40, 3)>>, 0, 0, NoInterp, <<>>, <<>>, <<>>) @@
    "pie" :> File("DYN", <<Seg(0, 3), Seg(6, 1)>>, 1, 2, NoInterp, <<>>, <<>>,
                  <<Rel("RELATIVE", "", 1, 2), Rel("RELATIVE", "", 6, 2)>>) @@
    "piedyn" :> File("DYN", <<Seg(0, 3)>>, 1, 2, "ld", <<"x">>, <<>>, <<>>) @@
    "bad" :> [File("EXEC", <<>>, 0, 0, NoInterp, <<>>, <<>>, <<>>) EXCEPT !.type = "REL"]

MCStarted ==
    {"dyn1", "dyn2", "dyn3", "nohdr", "static", "pie", "piedyn", "bad", "gone"}

LoaderSpec == LoaderInit /\ [][LoaderNext]_loaderVars
=============================================================================
